---- MODULE Spec2Model ----
(***************************************************************************)
(* Model of the Philips Hue mode switch (lights_mode.go): the controller   *)
(* position, the saved-state snapshot, the mutex, and every bridge round   *)
(* trip that SetPosition / GetPosition make, against a bridge that holds   *)
(* the live state of each fixture.                                         *)
(***************************************************************************)
EXTENDS Integers, Sequences, FiniteSets, TLC

\* ------------------------------------------------------------------ bounds
NumThreads == 2      \* concurrent callers of the switch
MaxCalls == 2        \* calls made on the switch in one behaviour
MaxFailures == 2     \* bridge round trips that fail in one behaviour
MaxExternal == 1     \* changes made to a fixture from outside the module
MaxPosition == 4     \* largest position argument passed to SetPosition
MaxGroups == 4       \* named groups in a dance configuration
MaxCount == 16       \* start hues computed for one number of groups

\* ------------------------------------------------------- program constants
WheelSize == 65535   \* hue wheel, activateDance
DanceSat == 254
DaylightBri == 254
DaylightCt == 153
WarmBri == 200
WarmCt == 370
PresetTransition == 4
MinPositive == 1     \* the bump for a zero bri / hue / sat
Scale == 10000000    \* a real v of the colour codec is floor(v * Scale)

Threads == 1..NumThreads
LightIDs == {1, 2}

\* modeNames, 0-based in the source, 1-based here
modeNames == <<"none", "dance", "daylight", "warm">>

\* Group names are strings; they are modelled as sequences of character
\* codes so that sort.Strings can be computed.
Center == <<99, 101, 110, 116, 101, 114>>
Left == <<108, 101, 102, 116>>

\* LightModeConfig: the configurations the controller is constructed with.
Configs ==
  { [Dance |-> (Left :> <<1>>) @@ (Center :> <<2>>),
     Daylight |-> <<1, 2>>, Warm |-> <<2>>] }

\* ------------------------------------------------------------ huego.State
NoXy == <<>>
NoErr == <<>>

\* the live states a fixture starts in, or is put in from outside
FixtureStates ==
  { [on |-> FALSE, bri |-> 0, hue |-> 0, sat |-> 0, xy |-> <<3, 3>>,
     ct |-> 300, effect |-> "none", colormode |-> "hs"],
    [on |-> TRUE, bri |-> 120, hue |-> 0, sat |-> 0, xy |-> <<4, 4>>,
     ct |-> 250, effect |-> "none", colormode |-> "ct"],
    [on |-> TRUE, bri |-> 254, hue |-> 5000, sat |-> 100, xy |-> <<6, 3>>,
     ct |-> 153, effect |-> "none", colormode |-> "xy"] }

StateOff == CHOOSE s \in FixtureStates : ~s.on
StateCt == CHOOSE s \in FixtureStates : s.colormode = "ct"
StateXy == CHOOSE s \in FixtureStates : s.colormode = "xy"

\* the fixtures when the controller is constructed
InitialLights ==
  { (1 :> StateOff) @@ (2 :> StateCt),
    (1 :> StateCt) @@ (2 :> StateXy),
    (1 :> StateXy) @@ (2 :> StateOff) }

\* the state a change from outside puts a fixture in: the colorloop effect
\* started from the Hue app
OutsideState ==
  [on |-> TRUE, bri |-> 77, hue |-> 40000, sat |-> 254, xy |-> <<2, 5>>,
   ct |-> 370, effect |-> "colorloop", colormode |-> "hs"]

\* a partial state as SetState sends it: On is always sent, every other
\* field is omitted from the JSON when it holds its zero value (omitempty)
Partial(on, bri, hue, sat, xy, ct, effect, tt) ==
  [on |-> on, bri |-> bri, hue |-> hue, sat |-> sat, xy |-> xy, ct |-> ct,
   effect |-> effect, transitiontime |-> tt]

\* the bridge applies the fields present in the payload and leaves the
\* others alone; the colour mode follows the colour field written
ApplyState(s, w) ==
  [on |-> w.on,
   bri |-> IF w.bri # 0 THEN w.bri ELSE s.bri,
   hue |-> IF w.hue # 0 THEN w.hue ELSE s.hue,
   sat |-> IF w.sat # 0 THEN w.sat ELSE s.sat,
   xy |-> IF w.xy # NoXy THEN w.xy ELSE s.xy,
   ct |-> IF w.ct # 0 THEN w.ct ELSE s.ct,
   effect |-> IF w.effect # "" THEN w.effect ELSE s.effect,
   colormode |-> IF w.xy # NoXy THEN "xy"
                 ELSE IF w.ct # 0 THEN "ct"
                 ELSE IF w.hue # 0 \/ w.sat # 0 \/ w.effect = "colorloop"
                      THEN "hs"
                 ELSE s.colormode]

Range(q) == {q[i] : i \in DOMAIN q}

\* ------------------------------------------------------------- sortedKeys
RECURSIVE StrLess(_, _)
StrLess(a, b) ==
  IF a = <<>> THEN b # <<>>
  ELSE IF b = <<>> THEN FALSE
  ELSE IF Head(a) # Head(b) THEN Head(a) < Head(b)
  ELSE StrLess(Tail(a), Tail(b))

RECURSIVE SortStrings(_)
SortStrings(S) ==
  IF S = {} THEN <<>>
  ELSE LET m == CHOOSE x \in S : \A y \in S \ {x} : StrLess(x, y)
       IN <<m>> \o SortStrings(S \ {m})

\* the keys in descending order
keysDescending(m) ==
  [i \in 1..Cardinality(DOMAIN m) |->
     SortStrings(DOMAIN m)[Cardinality(DOMAIN m) + 1 - i]]

sortedKeys(m) == SortStrings(DOMAIN m)

RECURSIVE Flatten(_, _)
Flatten(groups, keys) ==
  IF keys = <<>> THEN <<>>
  ELSE groups[Head(keys)] \o Flatten(groups, Tail(keys))

flattenDanceGroups(groups) == Flatten(groups, sortedKeys(groups))

ModeName(p) == IF p + 1 \in DOMAIN modeNames THEN modeNames[p + 1] ELSE "?"

lightIDsForPosition(c, p) ==
  CASE ModeName(p) = "dance" -> flattenDanceGroups(c.Dance)
    [] ModeName(p) = "daylight" -> c.Daylight
    [] ModeName(p) = "warm" -> c.Warm
    [] OTHER -> <<>>

\* the division made before the multiplication
startHueDivFirst(i, n) ==
  IF n > 0 /\ ((i \div n) * WheelSize) % 65536 > 0
  THEN ((i \div n) * WheelSize) % 65536
  ELSE MinPositive

\* the start hue of the group at sorted index i (0-based) of n groups
startHue(i, n) ==
  IF n > 0 /\ ((i * WheelSize) \div n) % 65536 > 0
  THEN ((i * WheelSize) \div n) % 65536
  ELSE MinPositive

\* activateDance's nested loops, flattened: the fixtures in the order they
\* are visited, each with the start hue of its group
RECURSIVE DanceFrom(_, _, _)
DanceFrom(groups, keys, i) ==
  IF i > Len(keys) THEN <<>>
  ELSE [j \in 1..Len(groups[keys[i]]) |->
          [id |-> groups[keys[i]][j], hue |-> startHue(i - 1, Len(keys))]]
       \o DanceFrom(groups, keys, i + 1)

DanceSteps(groups) == DanceFrom(groups, sortedKeys(groups), 1)

\* the seed and the trigger collapsed into one write
SeedStateWithLoop(h) == Partial(TRUE, 0, h, DanceSat, NoXy, 0, "colorloop", 0)

\* the payloads the source builds
SeedState(h) == Partial(TRUE, 0, h, DanceSat, NoXy, 0, "", 0)
LoopState == Partial(TRUE, 0, 0, 0, NoXy, 0, "colorloop", 0)
DaylightState ==
  Partial(TRUE, DaylightBri, 0, 0, NoXy, DaylightCt, "none", PresetTransition)

\* the warm payload with the brightness of the daylight one
WarmStateDaylightBri ==
  Partial(TRUE, DaylightBri, 0, 0, NoXy, WarmCt, "none", PresetTransition)

WarmState ==
  Partial(TRUE, WarmBri, 0, 0, NoXy, WarmCt, "none", PresetTransition)

\* the effect cleared without forcing the power on
ClearStateNoPower == Partial(FALSE, 0, 0, 0, NoXy, 0, "none", 0)

ClearState == Partial(TRUE, 0, 0, 0, NoXy, 0, "none", 0)

\* a zero left as it is
NoBump(v) == v

Bump(v) == IF v = 0 THEN MinPositive ELSE v

\* restoreState without the bump of a zero hue / sat
RestoreStateNoBump(st) ==
  CASE st.colormode = "ct" ->
         Partial(st.on, Bump(st.bri), 0, 0, NoXy, st.ct, "", 0)
    [] st.colormode = "xy" ->
         Partial(st.on, Bump(st.bri), 0, 0, st.xy, 0, "", 0)
    [] st.colormode = "hs" ->
         Partial(st.on, Bump(st.bri), st.hue, st.sat, NoXy, 0, "", 0)
    [] OTHER -> Partial(st.on, Bump(st.bri), 0, 0, NoXy, 0, "", 0)

\* restore := huego.State{...}: the payload of restoreState's second write
RestoreState(st) ==
  CASE st.colormode = "ct" ->
         Partial(st.on, Bump(st.bri), 0, 0, NoXy, st.ct, "", 0)
    [] st.colormode = "xy" ->
         Partial(st.on, Bump(st.bri), 0, 0, st.xy, 0, "", 0)
    [] st.colormode = "hs" ->
         Partial(st.on, Bump(st.bri), Bump(st.hue), Bump(st.sat), NoXy, 0,
                 "", 0)
    [] OTHER -> Partial(st.on, Bump(st.bri), 0, 0, NoXy, 0, "", 0)

\* ------------------------------------------------------------------ state
VARIABLES
  cfg,          \* hueLightMode.cfg
  lights,       \* the bridge: live huego.State of every fixture
  position,     \* hueLightMode.position
  savedStates,  \* hueLightMode.savedStates
  mu,           \* hueLightMode.mu: 0 when free, else the holding caller
  pc,           \* where each caller is in SetPosition / GetPosition
  req,          \* the position argument of the call in progress
                \* (-1: GetPosition, -2: GetNumberOfPositions)
  idx,          \* loop index of saveState / activate*
  todo,         \* fixtures restoreState's range loop has still to visit
  cur,          \* the fixture restoreState is working on
  firstErr,     \* restoreState's firstErr, or the error a call returns
  result,       \* "ok" / "err" once the call has its return value
  got,          \* the value GetPosition returns
  ops,          \* history: the bridge round trips of the call in progress
  entryPos,     \* history: position when the call began (took the lock)
  entrySaved,   \* history: savedStates when the call began (took the lock)
  base,         \* history: the fixtures before the first activation
  attempts,     \* history: activations since the last restore
  hist,         \* history: the activations the finished restore undid
  ext,          \* history: a fixture was changed from outside since base
  lastOK,       \* history: argument of the last returned SetPosition that
                \* asked for 0 or had every round trip succeed
  callers,      \* the callers that use the switch in this behaviour
  limit,        \* the number of calls they make in this behaviour
  calls, failures, externals,  \* budgets used
  nGroups,      \* activateDance's n, when start hues are computed alone
  index,        \* activateDance's i, the next sorted index
  angles,       \* the start hues of the indices before i
  channel,      \* hueLightColor.cfg.Channel of the switch a caller is in
  light,        \* hueLightColor: the state the call in progress has read
  zeroed,       \* history: the channels of the successful SetPosition(0)
                \* calls since the last write of another value
  triple,       \* the triple given to rgbToXY, when the codec runs alone
  xyBri,        \* what rgbToXY made of it, with brightness max(r, g, b)
  back,         \* what xyBriToRGB made of that
  lastBri,      \* hueLightBrightness.lastBri
  briLog        \* history: the brightness seen at construction, then the
                \* writes the brightness switch has issued

vars == <<cfg, lights, position, savedStates, mu, pc, req, idx, todo, cur,
          firstErr, result, got, ops, entryPos, entrySaved, base, attempts,
          hist, ext, lastOK, callers, limit, calls, failures, externals,
          nGroups, index, angles, channel, light, zeroed, triple, xyBri,
          back, lastBri, briLog>>

\* what the mode switch never touches
elsewhere ==
  <<nGroups, index, angles, channel, light, zeroed, triple, xyBri, back,
    lastBri, briLog>>

budgets == <<callers, limit, elsewhere, calls, failures, externals>>

EmptyMap == <<>>
NoBase == <<>>
NoPayload == Partial(FALSE, 0, 0, 0, NoXy, 0, "", 0)

NoState ==
  [on |-> FALSE, bri |-> 0, hue |-> 0, sat |-> 0, xy |-> NoXy, ct |-> 0,
   effect |-> "", colormode |-> ""]

\* history records of a GetLight (with the state it returned) and a SetState
Read(id, ok) ==
  [k |-> "get", id |-> id, ok |-> ok, w |-> NoPayload,
   st |-> IF ok THEN lights[id] ELSE NoState]
Write(id, ok, w) ==
  [k |-> "set", id |-> id, ok |-> ok, w |-> w, st |-> NoState]

\* the range check with > for >=
InvalidPositionOffByOne(p) == p > Len(modeNames)

\* SetPosition's range check
InvalidPosition(p) == p >= Len(modeNames)

\* saveState without the make(): entries of the old snapshot stay
KeepSnapshot(old) == old

\* saveState starts from a fresh map
FreshSnapshot(old) == EmptyMap

\* saved := *light.State; s.savedStates[id] = &saved
SaveEntry(saved, id, st) == (id :> st) @@ saved

\* Callers are interchangeable: the next call is made by the lowest idle one.
Free(t) ==
  /\ t \in callers
  /\ pc[t] = "idle"
  /\ \A u \in callers : u < t => pc[u] # "idle"

\* a round trip may fail while the failure budget lasts
Outcomes == IF failures < MaxFailures THEN {TRUE, FALSE} ELSE {TRUE}

\* no start hue is being computed alone
NoAngles == nGroups = 0 /\ index = 0 /\ angles = <<>>

\* newHueLightMode: the controller as constructed, and its callers idle
Constructed ==
  /\ position = 0
  /\ savedStates = EmptyMap
  /\ mu = 0
  /\ pc = [t \in Threads |-> "idle"]
  /\ req = [t \in Threads |-> 0]
  /\ idx = [t \in Threads |-> 1]
  /\ todo = [t \in Threads |-> {}]
  /\ cur = [t \in Threads |-> 0]
  /\ firstErr = [t \in Threads |-> NoErr]
  /\ result = [t \in Threads |-> ""]
  /\ got = [t \in Threads |-> 0]
  /\ ops = [t \in Threads |-> <<>>]
  /\ entryPos = [t \in Threads |-> 0]
  /\ entrySaved = [t \in Threads |-> EmptyMap]
  /\ base = NoBase
  /\ attempts = <<>>
  /\ hist = <<>>
  /\ ext = FALSE
  /\ lastOK = 0
  /\ calls = 0 /\ failures = 0 /\ externals = 0

\* no call on a channel switch is in progress
\* the codec is not run on its own
NoCodec == triple = <<>> /\ xyBri = <<>> /\ back = <<>>

\* no brightness switch is constructed
NoBrightness == lastBri = 0 /\ briLog = <<>>

NoColor ==
  /\ channel = [t \in Threads |-> ""]
  /\ light = [t \in Threads |-> NoState]
  /\ zeroed = <<>>

InitState ==
  /\ cfg \in Configs
  /\ lights \in InitialLights
  /\ Constructed
  /\ NoAngles
  /\ NoColor
  /\ NoCodec
  /\ NoBrightness

\* one caller, and an environment that may change fixtures
Init == InitState /\ callers = {1} /\ limit = MaxCalls

\* concurrent callers
InitConc == InitState /\ callers = Threads /\ limit = MaxCalls

\* one caller that makes one call more: activate, activate, restore
InitChain == InitState /\ callers = {1} /\ limit = MaxCalls + 1

\* ---------------------------------------------------------------- helpers
Set(f, t, v) == [f EXCEPT ![t] = v]
Log(t, op) == [ops EXCEPT ![t] = Append(@, op)]
Attempt(p, ok) == [p |-> p, ok |-> ok]

\* the list the call of caller t works through
IDs(t) == lightIDsForPosition(cfg, req[t])
Steps(t) == DanceSteps(cfg.Dance)

\* an activation that records the requested position though it failed
AbortAfterCommit(t, op, err) ==
  /\ pc' = Set(pc, t, "done")
  /\ result' = Set(result, t, "err")
  /\ firstErr' = Set(firstErr, t, err)
  /\ ops' = Log(t, op)
  /\ failures' = failures + 1
  /\ attempts' = Append(attempts, Attempt(req[t], FALSE))
  /\ position' = req[t]
  /\ UNCHANGED <<cfg, lights, savedStates, mu, req, idx, todo, cur,
                 got, entryPos, entrySaved, base, hist, ext, lastOK, callers,
                 limit, elsewhere, calls, externals>>

\* an activation (snapshot included) returns its first error at once
Abort(t, op, err) ==
  /\ pc' = Set(pc, t, "done")
  /\ result' = Set(result, t, "err")
  /\ firstErr' = Set(firstErr, t, err)
  /\ ops' = Log(t, op)
  /\ failures' = failures + 1
  /\ attempts' = Append(attempts, Attempt(req[t], FALSE))
  /\ UNCHANGED <<cfg, lights, position, savedStates, mu, req, idx, todo, cur,
                 got, entryPos, entrySaved, base, hist, ext, lastOK, callers,
                 limit, elsewhere, calls, externals>>

\* an activation that got through every fixture records the new position
Activated(t) ==
  /\ position' = req[t]
  /\ pc' = Set(pc, t, "done")
  /\ result' = Set(result, t, "ok")
  /\ attempts' = Append(attempts, Attempt(req[t], TRUE))
  /\ UNCHANGED <<cfg, lights, savedStates, mu, req, idx, todo, cur, firstErr,
                 got, ops, entryPos, entrySaved, base, hist, ext, lastOK,
                 budgets>>

\* ------------------------------------------------------------ SetPosition
\* entry: the range check comes before the lock
CallSetPosition(t, p) ==
  /\ Free(t)
  /\ calls < limit
  /\ calls' = calls + 1
  /\ req' = Set(req, t, p)
  /\ entryPos' = Set(entryPos, t, position)
  /\ entrySaved' = Set(entrySaved, t, savedStates)
  /\ IF InvalidPosition(p)
     THEN /\ pc' = Set(pc, t, "done")
          /\ result' = Set(result, t, "err")
          /\ firstErr' = Set(firstErr, t, <<"invalid", p>>)
     ELSE /\ pc' = Set(pc, t, "lock")
          /\ UNCHANGED <<result, firstErr>>
  /\ UNCHANGED <<cfg, lights, position, savedStates, mu, idx, todo, cur, got,
                 ops, base, attempts, hist, ext, lastOK,
                 callers, limit, elsewhere,
                 failures,
                 externals>>

\* what SetPosition does once it holds the lock, up to the first round trip
Dispatch(t) ==
  /\ pc[t] = "lock"
  /\ mu' = t
  /\ entryPos' = Set(entryPos, t, position)
  /\ entrySaved' = Set(entrySaved, t, savedStates)
  /\ IF req[t] = 0
     THEN /\ pc' = Set(pc, t, "restore")
          /\ todo' = Set(todo, t, DOMAIN savedStates)
          /\ firstErr' = Set(firstErr, t, NoErr)
          /\ UNCHANGED <<savedStates, idx, base, ext>>
     ELSE /\ pc' = Set(pc, t, "save")
          /\ savedStates' = FreshSnapshot(savedStates)
          /\ idx' = Set(idx, t, 1)
          /\ IF attempts = <<>>
             THEN base' = lights /\ ext' = FALSE
             ELSE UNCHANGED <<base, ext>>
          /\ UNCHANGED <<todo, firstErr>>
  /\ UNCHANGED <<cfg, lights, position, req, cur, result, got, ops, attempts,
                 hist, lastOK, budgets>>

\* SetPosition without s.mu.Lock()
LockNoWait(t) == Dispatch(t)

\* s.mu.Lock(): wait for the mutex, then go on
Lock(t) == mu = 0 /\ Dispatch(t)

\* a snapshot read that fails is skipped and the loop goes on
SaveReadSkipsFailure(t) ==
  /\ pc[t] = "save"
  /\ idx[t] <= Len(IDs(t))
  /\ LET id == IDs(t)[idx[t]] IN
     \E ok \in Outcomes :
       /\ savedStates' = IF ok THEN SaveEntry(savedStates, id, lights[id])
                         ELSE savedStates
       /\ idx' = Set(idx, t, idx[t] + 1)
       /\ ops' = Log(t, Read(id, ok))
       /\ failures' = IF ok THEN failures ELSE failures + 1
       /\ UNCHANGED <<cfg, lights, position, mu, pc, req, todo, cur,
                      firstErr, result, got, entryPos, entrySaved, base,
                      attempts, hist, ext, lastOK, callers, limit, elsewhere,
                      calls, externals>>

\* saveState: one GetLight per fixture of the list
SaveRead(t) ==
  /\ pc[t] = "save"
  /\ idx[t] <= Len(IDs(t))
  /\ LET id == IDs(t)[idx[t]] IN
     \E ok \in Outcomes :
       IF ok
       THEN /\ savedStates' = SaveEntry(savedStates, id, lights[id])
            /\ idx' = Set(idx, t, idx[t] + 1)
            /\ ops' = Log(t, Read(id, TRUE))
            /\ UNCHANGED <<cfg, lights, position, mu, pc, req, todo, cur,
                           firstErr, result, got, entryPos, entrySaved, base,
                           attempts, hist, ext, lastOK, budgets>>
       ELSE Abort(t, Read(id, FALSE), <<"get", id>>)

\* the position recorded before the activation, not after it
SaveDoneCommits(t) ==
  /\ pc[t] = "save"
  /\ idx[t] > Len(IDs(t))
  /\ pc' = Set(pc, t, IF ModeName(req[t]) = "dance" THEN "dance_get"
                      ELSE IF ModeName(req[t]) \in {"daylight", "warm"}
                           THEN "preset_get"
                      ELSE "panic")
  /\ idx' = Set(idx, t, 1)
  /\ position' = req[t]
  /\ UNCHANGED <<cfg, lights, savedStates, mu, req, todo, cur,
                 firstErr, result, got, ops, entryPos, entrySaved, base,
                 attempts, hist, ext, lastOK, budgets>>

\* saveState returned nil: the switch on modeNames[position]
SaveDone(t) ==
  /\ pc[t] = "save"
  /\ idx[t] > Len(IDs(t))
  /\ pc' = Set(pc, t, IF ModeName(req[t]) = "dance" THEN "dance_get"
                      ELSE IF ModeName(req[t]) \in {"daylight", "warm"}
                           THEN "preset_get"
                      ELSE "panic")
  /\ idx' = Set(idx, t, 1)
  /\ UNCHANGED <<cfg, lights, position, savedStates, mu, req, todo, cur,
                 firstErr, result, got, ops, entryPos, entrySaved, base,
                 attempts, hist, ext, lastOK, budgets>>

\* a successful round trip inside an activation loop
Advance(t, op, newLights, newPc, newIdx) ==
  /\ lights' = newLights
  /\ pc' = Set(pc, t, newPc)
  /\ idx' = Set(idx, t, newIdx)
  /\ ops' = Log(t, op)
  /\ UNCHANGED <<cfg, position, savedStates, mu, req, todo, cur, firstErr,
                 result, got, entryPos, entrySaved, base, attempts, hist, ext,
                 lastOK, budgets>>

Written(id, w) == [lights EXCEPT ![id] = ApplyState(@, w)]

\* ----------------------------------------------------------- activateDance
DanceGet(t) ==
  /\ pc[t] = "dance_get"
  /\ idx[t] <= Len(Steps(t))
  /\ LET id == Steps(t)[idx[t]].id IN
     \E ok \in Outcomes :
       IF ok THEN Advance(t, Read(id, TRUE), lights, "dance_seed", idx[t])
       ELSE Abort(t, Read(id, FALSE), <<"get", id>>)

\* step 1: seed the starting hue and saturation
DanceSeed(t) ==
  /\ pc[t] = "dance_seed"
  /\ LET id == Steps(t)[idx[t]].id
         w == SeedState(Steps(t)[idx[t]].hue) IN
     \E ok \in Outcomes :
       IF ok
       THEN Advance(t, Write(id, TRUE, w), Written(id, w), "dance_loop",
                    idx[t])
       ELSE Abort(t, Write(id, FALSE, w), <<"set", id>>)

\* step 2: start the colorloop
DanceLoop(t) ==
  /\ pc[t] = "dance_loop"
  /\ LET id == Steps(t)[idx[t]].id IN
     \E ok \in Outcomes :
       IF ok
       THEN Advance(t, Write(id, TRUE, LoopState), Written(id, LoopState),
                    "dance_get", idx[t] + 1)
       ELSE Abort(t, Write(id, FALSE, LoopState), <<"set", id>>)

DanceDone(t) ==
  /\ pc[t] = "dance_get"
  /\ idx[t] > Len(Steps(t))
  /\ Activated(t)

\* --------------------------------------------- activateDaylight / activateWarm
PresetState(p) == IF ModeName(p) = "daylight" THEN DaylightState ELSE WarmState

PresetGet(t) ==
  /\ pc[t] = "preset_get"
  /\ idx[t] <= Len(IDs(t))
  /\ LET id == IDs(t)[idx[t]] IN
     \E ok \in Outcomes :
       IF ok THEN Advance(t, Read(id, TRUE), lights, "preset_set", idx[t])
       ELSE Abort(t, Read(id, FALSE), <<"get", id>>)

\* a preset loop that logs the failed write and goes on to the next fixture
PresetSetContinues(t) ==
  /\ pc[t] = "preset_set"
  /\ LET id == IDs(t)[idx[t]]
         w == PresetState(req[t]) IN
     \E ok \in Outcomes :
       /\ lights' = IF ok THEN Written(id, w) ELSE lights
       /\ pc' = Set(pc, t, "preset_get")
       /\ idx' = Set(idx, t, idx[t] + 1)
       /\ ops' = Log(t, Write(id, ok, w))
       /\ failures' = IF ok THEN failures ELSE failures + 1
       /\ UNCHANGED <<cfg, position, savedStates, mu, req, todo, cur,
                      firstErr, result, got, entryPos, entrySaved, base,
                      attempts, hist, ext, lastOK,
                      callers, limit, elsewhere, calls,
                      externals>>

PresetSet(t) ==
  /\ pc[t] = "preset_set"
  /\ LET id == IDs(t)[idx[t]]
         w == PresetState(req[t]) IN
     \E ok \in Outcomes :
       IF ok
       THEN Advance(t, Write(id, TRUE, w), Written(id, w), "preset_get",
                    idx[t] + 1)
       ELSE Abort(t, Write(id, FALSE, w), <<"set", id>>)

PresetDone(t) ==
  /\ pc[t] = "preset_get"
  /\ idx[t] > Len(IDs(t))
  /\ Activated(t)

\* ------------------------------------------------------------ restoreState
\* the error is overwritten by every later one
KeepLast(old, err) == err

\* if firstErr == nil { firstErr = err }
KeepFirst(old, err) == IF old = NoErr THEN err ELSE old

\* one round trip of the restore loop: newTodo is what is left to visit
RestoreStep(t, op, err, newLights, newPc, newCur, newTodo) ==
  /\ lights' = newLights
  /\ pc' = Set(pc, t, newPc)
  /\ cur' = Set(cur, t, newCur)
  /\ todo' = Set(todo, t, newTodo)
  /\ ops' = Log(t, op)
  /\ firstErr' = Set(firstErr, t,
                     IF op.ok THEN firstErr[t] ELSE KeepFirst(firstErr[t], err))
  /\ failures' = IF op.ok THEN failures ELSE failures + 1
  /\ UNCHANGED <<cfg, position, savedStates, mu, req, idx, result, got,
                 entryPos, entrySaved, base, attempts, hist, ext, lastOK,
                 callers, limit, elsewhere, calls, externals>>

\* the range loop visits the snapshot in any order; GetLight, and continue
\* on failure
RestoreGet(t) ==
  /\ pc[t] = "restore"
  /\ todo[t] # {}
  /\ \E id \in todo[t], ok \in Outcomes :
       IF ok
       THEN RestoreStep(t, Read(id, TRUE), NoErr, lights, "restore_clear",
                        id, todo[t])
       ELSE RestoreStep(t, Read(id, FALSE), <<"get", id>>, lights, "restore",
                        0, todo[t] \ {id})

\* step 1: stop the effect, with On: true; continue on failure
RestoreClear(t) ==
  /\ pc[t] = "restore_clear"
  /\ LET id == cur[t] IN
     \E ok \in Outcomes :
       IF ok
       THEN RestoreStep(t, Write(id, TRUE, ClearState), NoErr,
                        Written(id, ClearState), "restore_write", id, todo[t])
       ELSE RestoreStep(t, Write(id, FALSE, ClearState), <<"set", id>>,
                        lights, "restore", 0, todo[t] \ {id})

\* step 2 sending the saved state as it was read, every field of it
RestoreWriteWholeState(t) ==
  /\ pc[t] = "restore_write"
  /\ LET id == cur[t]
         st == savedStates[id]
         w == Partial(st.on, st.bri, st.hue, st.sat, st.xy, st.ct,
                      st.effect, 0) IN
     \E ok \in Outcomes :
       IF ok
       THEN RestoreStep(t, Write(id, TRUE, w), NoErr, Written(id, w),
                        "restore", 0, todo[t] \ {id})
       ELSE RestoreStep(t, Write(id, FALSE, w), <<"set", id>>, lights,
                        "restore", 0, todo[t] \ {id})

\* step 2: the saved on/off, brightness and colour fields
RestoreWrite(t) ==
  /\ pc[t] = "restore_write"
  /\ LET id == cur[t]
         w == RestoreState(savedStates[id]) IN
     \E ok \in Outcomes :
       IF ok
       THEN RestoreStep(t, Write(id, TRUE, w), NoErr, Written(id, w),
                        "restore", 0, todo[t] \ {id})
       ELSE RestoreStep(t, Write(id, FALSE, w), <<"set", id>>, lights,
                        "restore", 0, todo[t] \ {id})

\* the loop's end without s.savedStates = make(...)
RestoreDoneKeepsSnapshot(t) ==
  /\ pc[t] = "restore"
  /\ todo[t] = {}
  /\ position' = 0
  /\ pc' = Set(pc, t, "done")
  /\ result' = Set(result, t, IF firstErr[t] = NoErr THEN "ok" ELSE "err")
  /\ hist' = attempts
  /\ attempts' = <<>>
  /\ UNCHANGED <<cfg, lights, savedStates, mu, req, idx, todo, cur, firstErr,
                 got, ops, entryPos, entrySaved, base, ext, lastOK, budgets>>

\* after the loop: clear the snapshot, position 0, return firstErr
RestoreDone(t) ==
  /\ pc[t] = "restore"
  /\ todo[t] = {}
  /\ savedStates' = EmptyMap
  /\ position' = 0
  /\ pc' = Set(pc, t, "done")
  /\ result' = Set(result, t, IF firstErr[t] = NoErr THEN "ok" ELSE "err")
  /\ hist' = attempts
  /\ attempts' = <<>>
  /\ UNCHANGED <<cfg, lights, mu, req, idx, todo, cur, firstErr, got, ops,
                 entryPos, entrySaved, base, ext, lastOK, budgets>>

\* ------------------------------------------------------------ GetPosition
CallGetPosition(t) ==
  /\ Free(t)
  /\ calls < limit
  /\ calls' = calls + 1
  /\ req' = Set(req, t, -1)
  /\ pc' = Set(pc, t, "getlock")
  /\ UNCHANGED <<cfg, lights, position, savedStates, mu, idx, todo, cur,
                 firstErr, result, got, ops, entryPos, entrySaved, base,
                 attempts, hist, ext, lastOK,
                 callers, limit, elsewhere, failures,
                 externals>>

\* GetPosition asking the bridge whether the mode is still showing
GetPositionAsksBridge(t) ==
  /\ pc[t] = "getlock"
  /\ mu = 0
  /\ mu' = t
  /\ ops' = Log(t, Read(1, TRUE))
  /\ got' = Set(got, t, IF lights[1] = OutsideState THEN 0 ELSE position)
  /\ entryPos' = Set(entryPos, t, position)
  /\ entrySaved' = Set(entrySaved, t, savedStates)
  /\ pc' = Set(pc, t, "done")
  /\ result' = Set(result, t, "ok")
  /\ UNCHANGED <<cfg, lights, position, savedStates, req, idx, todo, cur,
                 firstErr, base, attempts, hist, ext, lastOK, budgets>>

\* s.mu.Lock(); return s.position
GetPosition(t) ==
  /\ pc[t] = "getlock"
  /\ mu = 0
  /\ mu' = t
  /\ got' = Set(got, t, position)
  /\ entryPos' = Set(entryPos, t, position)
  /\ entrySaved' = Set(entrySaved, t, savedStates)
  /\ pc' = Set(pc, t, "done")
  /\ result' = Set(result, t, "ok")
  /\ UNCHANGED <<cfg, lights, position, savedStates, req, idx, todo, cur,
                 firstErr, ops, base, attempts, hist, ext, lastOK, budgets>>

\* GetNumberOfPositions: no lock, no state
GetNumberOfPositions(t) ==
  /\ Free(t)
  /\ calls < limit
  /\ calls' = calls + 1
  /\ req' = Set(req, t, -2)
  /\ entryPos' = Set(entryPos, t, position)
  /\ got' = Set(got, t, Len(modeNames))
  /\ pc' = Set(pc, t, "done")
  /\ result' = Set(result, t, "ok")
  /\ UNCHANGED <<cfg, lights, position, savedStates, mu, idx, todo, cur,
                 firstErr, ops, entrySaved, base, attempts, hist, ext, lastOK,
                 callers, limit, elsewhere, failures, externals>>

\* a return that unlocks on the success path only
ReturnKeepsLockOnError(t) ==
  /\ pc[t] = "done"
  /\ mu' = IF mu = t /\ result[t] = "ok" THEN 0 ELSE mu
  /\ pc' = Set(pc, t, "idle")
  /\ req' = Set(req, t, 0)
  /\ idx' = Set(idx, t, 1)
  /\ todo' = Set(todo, t, {})
  /\ cur' = Set(cur, t, 0)
  /\ firstErr' = Set(firstErr, t, NoErr)
  /\ result' = Set(result, t, "")
  /\ got' = Set(got, t, 0)
  /\ ops' = Set(ops, t, <<>>)
  /\ entryPos' = Set(entryPos, t, 0)
  /\ entrySaved' = Set(entrySaved, t, EmptyMap)
  /\ IF req[t] = 0 /\ mu = t
     THEN hist' = <<>> /\ base' = NoBase /\ ext' = FALSE
     ELSE UNCHANGED <<hist, base, ext>>
  /\ lastOK' = IF mu = t /\ req[t] = 0 THEN 0
               ELSE IF mu = t /\ req[t] \in 1..3
                       /\ \A i \in DOMAIN ops[t] : ops[t][i].ok
                    THEN req[t]
               ELSE lastOK
  /\ UNCHANGED <<cfg, lights, position, savedStates, attempts, budgets>>

\* the call returns: the deferred s.mu.Unlock() runs if the lock was taken
Return(t) ==
  /\ pc[t] = "done"
  /\ mu' = IF mu = t THEN 0 ELSE mu
  /\ pc' = Set(pc, t, "idle")
  /\ req' = Set(req, t, 0)
  /\ idx' = Set(idx, t, 1)
  /\ todo' = Set(todo, t, {})
  /\ cur' = Set(cur, t, 0)
  /\ firstErr' = Set(firstErr, t, NoErr)
  /\ result' = Set(result, t, "")
  /\ got' = Set(got, t, 0)
  /\ ops' = Set(ops, t, <<>>)
  /\ entryPos' = Set(entryPos, t, 0)
  /\ entrySaved' = Set(entrySaved, t, EmptyMap)
  /\ IF req[t] = 0 /\ mu = t
     THEN hist' = <<>> /\ base' = NoBase /\ ext' = FALSE
     ELSE UNCHANGED <<hist, base, ext>>
  /\ lastOK' = IF mu = t /\ req[t] = 0 THEN 0
               ELSE IF mu = t /\ req[t] \in 1..3
                       /\ \A i \in DOMAIN ops[t] : ops[t][i].ok
                    THEN req[t]
               ELSE lastOK
  /\ UNCHANGED <<cfg, lights, position, savedStates, attempts, budgets>>

\* ------------------------------------------------------------ environment
\* somebody else (the Hue app, a wall switch) changes a fixture
External(id) ==
  /\ externals < MaxExternal
  /\ lights' = [lights EXCEPT ![id] = OutsideState]
  /\ externals' = externals + 1
  /\ ext' = (base # NoBase)
  /\ UNCHANGED <<cfg, position, savedStates, mu, pc, req, idx, todo, cur,
                 firstErr, result, got, ops, entryPos, entrySaved, base,
                 attempts, hist, lastOK,
                 callers, limit, elsewhere, calls, failures>>

Calls ==
  \/ \E t \in Threads, p \in 0..MaxPosition : CallSetPosition(t, p)
  \/ \E t \in Threads : Lock(t)
  \/ \E t \in Threads : SaveRead(t)
  \/ \E t \in Threads : SaveDone(t)
  \/ \E t \in Threads : DanceGet(t)
  \/ \E t \in Threads : DanceSeed(t)
  \/ \E t \in Threads : DanceLoop(t)
  \/ \E t \in Threads : DanceDone(t)
  \/ \E t \in Threads : PresetGet(t)
  \/ \E t \in Threads : PresetSet(t)
  \/ \E t \in Threads : PresetDone(t)
  \/ \E t \in Threads : RestoreGet(t)
  \/ \E t \in Threads : RestoreClear(t)
  \/ \E t \in Threads : RestoreWrite(t)
  \/ \E t \in Threads : RestoreDone(t)
  \/ \E t \in Threads : CallGetPosition(t)
  \/ \E t \in Threads : GetPosition(t)
  \/ \E t \in Threads : GetNumberOfPositions(t)
  \/ \E t \in Threads : Return(t)

Next ==
  \/ Calls
  \/ \E id \in LightIDs : External(id)

Spec == Init /\ [][Next]_vars

SpecConc == InitConc /\ [][Calls]_vars

SpecChain == InitChain /\ [][Calls]_vars

\* the steps of a call that is under way: taking the lock when it is free,
\* the bridge round trips, which all return, and the return itself
Progress(t) ==
  \/ Lock(t)
  \/ SaveRead(t) \/ SaveDone(t)
  \/ DanceGet(t) \/ DanceSeed(t) \/ DanceLoop(t) \/ DanceDone(t)
  \/ PresetGet(t) \/ PresetSet(t) \/ PresetDone(t)
  \/ RestoreGet(t) \/ RestoreClear(t) \/ RestoreWrite(t) \/ RestoreDone(t)
  \/ GetPosition(t)
  \/ Return(t)

InitLive == InitState /\ callers = {1, 2} /\ limit = Cardinality(callers)

\* two callers, each call under way keeps taking steps
SpecLive ==
  InitLive /\ [][Calls]_vars /\ \A t \in Threads : WF_vars(Progress(t))

\* NONE requested again and again around one DAYLIGHT, with reads of the
\* position and changes from outside in between
NextNone ==
  \/ \E t \in Threads, p \in {0, 2} : CallSetPosition(t, p)
  \/ \E t \in Threads : Lock(t)
  \/ \E t \in Threads : SaveRead(t)
  \/ \E t \in Threads : SaveDone(t)
  \/ \E t \in Threads : PresetGet(t)
  \/ \E t \in Threads : PresetSet(t)
  \/ \E t \in Threads : PresetDone(t)
  \/ \E t \in Threads : RestoreGet(t)
  \/ \E t \in Threads : RestoreClear(t)
  \/ \E t \in Threads : RestoreWrite(t)
  \/ \E t \in Threads : RestoreDone(t)
  \/ \E t \in Threads : CallGetPosition(t)
  \/ \E t \in Threads : GetPosition(t)
  \/ \E t \in Threads : Return(t)
  \/ \E id \in LightIDs : External(id)

SpecNone == InitChain /\ [][NextNone]_vars

\* -------------------------------------------------- CYCLE over more groups
\* configurations with up to MaxGroups named groups, the README's among
\* them: {"left": [1, 2], "center": [3, 4], "right": [5]}
Right == <<114, 105, 103, 104, 116>>

ReadmeConfig ==
  [Dance |-> (Left :> <<1, 2>>) @@ (Center :> <<3, 4>>) @@ (Right :> <<5>>),
   Daylight |-> <<>>, Warm |-> <<>>]

\* the name of the k-th group: "left", "center", "right", then "ld", "le"..
GroupName(k) ==
  CASE k = 1 -> Left
    [] k = 2 -> Center
    [] k = 3 -> Right
    [] OTHER -> <<108, 96 + k>>

GroupConfigs ==
  {ReadmeConfig} \cup
  { [Dance |-> [name \in {GroupName(k) : k \in 1..n} |->
                  LET k == CHOOSE k \in 1..n : GroupName(k) = name
                  IN <<k>>],
     Daylight |-> <<>>, Warm |-> <<>>] : n \in 1..MaxGroups }

InitGroups ==
  /\ cfg \in GroupConfigs
  /\ lights \in { [id \in Range(flattenDanceGroups(cfg.Dance)) |-> s] :
                    s \in FixtureStates }
  /\ Constructed
  /\ NoAngles
  /\ NoColor
  /\ NoCodec
  /\ NoBrightness
  /\ callers = {1} /\ limit = 1

\* one SetPosition(1)
NextGroups ==
  \E t \in Threads :
    \/ CallSetPosition(t, 1)
    \/ Lock(t)
    \/ SaveRead(t)
    \/ SaveDone(t)
    \/ DanceGet(t)
    \/ DanceSeed(t)
    \/ DanceLoop(t)
    \/ DanceDone(t)
    \/ Return(t)

SpecGroups == InitGroups /\ [][NextGroups]_vars

\* ------------------------------------------------- the start hues alone
\* activateDance's computation of startHue for n groups, index by index,
\* without a bridge: every n up to MaxCount, and the n around half the
\* wheel and at the whole wheel (of those the first MaxCount indices)
GroupCounts ==
  (1..MaxCount) \cup {WheelSize \div 2, WheelSize \div 2 + 1, WheelSize}

switchVars ==
  <<cfg, lights, position, savedStates, mu, pc, req, idx, todo, cur,
    firstErr, result, got, ops, entryPos, entrySaved, base, attempts, hist,
    ext, lastOK, callers, limit, calls, failures, externals>>

InitAngles ==
  /\ cfg \in Configs
  /\ lights \in InitialLights
  /\ Constructed
  /\ callers = {} /\ limit = 0
  /\ nGroups \in GroupCounts
  /\ index = 0
  /\ angles = <<>>
  /\ NoColor
  /\ NoCodec
  /\ NoBrightness

\* the pass counting the groups from 1
NextStartHueFromOne ==
  /\ index < nGroups /\ index < MaxCount
  /\ angles' = Append(angles, startHue(index + 1, nGroups))
  /\ index' = index + 1
  /\ UNCHANGED <<nGroups, channel, light, zeroed, triple, xyBri, back,
                 lastBri, briLog, switchVars>>

\* one pass of `for i, k := range keys` up to the computation of startHue
NextStartHue ==
  /\ index < nGroups /\ index < MaxCount
  /\ angles' = Append(angles, startHue(index, nGroups))
  /\ index' = index + 1
  /\ UNCHANGED <<nGroups, channel, light, zeroed, triple, xyBri, back,
                 lastBri, briLog, switchVars>>

SpecAngles == InitAngles /\ [][NextStartHue]_vars

\* ------------------------------------------------------- the colour codec
\* light_color.go computes in float64 and returns x, y as float32.  Here a
\* real v is the integer floor(v * Scale); the products by the six-digit
\* matrix coefficients are taken in millionths.

\* a * b \div d for non-negative a, b, by halving b, without a product that
\* leaves 32 bits: <<quotient, remainder>>
RECURSIVE MulDivQR(_, _, _)
MulDivQR(a, b, d) ==
  IF b = 0 THEN <<0, 0>>
  ELSE LET h == MulDivQR(a, b \div 2, d)
           t == 2 * h[2] + (b % 2) * (a % d)
       IN <<2 * h[1] + (b % 2) * (a \div d) + t \div d, t % d>>

MulDiv(a, b, d) ==
  IF a < 0 THEN 0 - MulDivQR(0 - a, b, d)[1] ELSE MulDivQR(a, b, d)[1]

Max2(a, b) == IF a >= b THEN a ELSE b

\* srgbToLinear(c / 255) * Scale for c = 0..255, at index c + 1
LinearTable ==
  <<
    0, 3035, 6071, 9106, 12141, 15176, 18212, 21247, 24282, 27317, 30353,
    33465, 36765, 40247, 43914, 47770, 51815, 56054, 60488, 65121, 69954,
    74990, 80232, 85681, 91341, 97212, 103298, 109601, 116122, 122865,
    129830, 137021, 144438, 152085, 159963, 168074, 176420, 185002, 193824,
    202886, 212190, 221739, 231534, 241576, 251869, 262412, 273209, 284260,
    295568, 307134, 318960, 331048, 343398, 356013, 368895, 382044, 395462,
    409152, 423114, 437350, 451862, 466651, 481718, 497066, 512695, 528606,
    544803, 561285, 578054, 595112, 612461, 630100, 648033, 666259, 684782,
    703601, 722719, 742136, 761854, 781874, 802198, 822827, 843762, 865005,
    886556, 908417, 930590, 953075, 975873, 998987, 1022417, 1046165,
    1070231, 1094617, 1119324, 1144354, 1169707, 1195384, 1221388, 1247718,
    1274377, 1301365, 1328683, 1356333, 1384316, 1412633, 1441285, 1470273,
    1499598, 1529262, 1559265, 1589608, 1620294, 1651322, 1682694, 1714411,
    1746474, 1778884, 1811642, 1844750, 1878208, 1912017, 1946178, 1980693,
    2015563, 2050787, 2086369, 2122308, 2158605, 2195262, 2232280, 2269659,
    2307400, 2345506, 2383976, 2422811, 2462013, 2501583, 2541521, 2581829,
    2622507, 2663556, 2704978, 2746773, 2788943, 2831487, 2874408, 2917706,
    2961383, 3005438, 3049873, 3094689, 3139887, 3185468, 3231432, 3277781,
    3324515, 3371636, 3419144, 3467041, 3515326, 3564001, 3613068, 3662526,
    3712377, 3762621, 3813260, 3864294, 3915725, 3967552, 4019778, 4072402,
    4125426, 4178851, 4232677, 4286905, 4341536, 4396572, 4452012, 4507858,
    4564110, 4620770, 4677838, 4735315, 4793202, 4851499, 4910208, 4969330,
    5028865, 5088813, 5149177, 5209956, 5271151, 5332764, 5394795, 5457245,
    5520114, 5583404, 5647115, 5711248, 5775804, 5840784, 5906188, 5972018,
    6038273, 6104956, 6172066, 6239604, 6307571, 6375969, 6444797, 6514056,
    6583748, 6653873, 6724432, 6795425, 6866853, 6938718, 7011019, 7083758,
    7156935, 7230551, 7304607, 7379104, 7454042, 7529422, 7605245, 7681511,
    7758222, 7835378, 7912979, 7991027, 8069523, 8148466, 8227858, 8307699,
    8387990, 8468732, 8549926, 8631572, 8713671, 8796224, 8879231, 8962694,
    9046612, 9130987, 9215819, 9301109, 9386857, 9473065, 9559734, 9646862,
    9734453, 9822506, 9911021, 10000000
  >>

srgbToLinear(c) == LinearTable[c + 1]

\* linearToSRGB8 is monotone: at index v, the least c * Scale with
\* linearToSRGB8(c) >= v, for v = 1..255
ThresholdTable ==
  <<
    1518, 4553, 7589, 10624, 13659, 16694, 19730, 22765, 25800, 28836, 31884,
    35093, 38484, 42058, 45819, 49769, 53911, 58247, 62780, 67513, 72447,
    77586, 82931, 88485, 94250, 100229, 106423, 112835, 119466, 126320,
    133398, 140702, 148234, 155996, 163990, 172218, 180682, 189383, 198325,
    207508, 216934, 226606, 236524, 246692, 257109, 267779, 278703, 289883,
    301320, 313015, 324972, 337190, 349673, 362421, 375436, 388720, 402274,
    416099, 430198, 444572, 459222, 474150, 489357, 504845, 520616, 536669,
    553009, 569634, 586548, 603751, 621244, 639030, 657110, 675484, 694155,
    713123, 732390, 751958, 771827, 791999, 812475, 833257, 854345, 875742,
    897448, 919465, 941794, 964435, 987391, 1010663, 1034252, 1058159,
    1082385, 1106931, 1131799, 1156990, 1182505, 1208346, 1234512, 1261007,
    1287830, 1314983, 1342467, 1370284, 1398433, 1426917, 1455737, 1484894,
    1514388, 1544221, 1574394, 1604909, 1635765, 1666965, 1698510, 1730400,
    1762636, 1795220, 1828153, 1861435, 1895069, 1929054, 1963392, 1998084,
    2033131, 2068534, 2104294, 2140412, 2176889, 2213726, 2250924, 2288485,
    2326408, 2364696, 2403348, 2442367, 2481753, 2521506, 2561629, 2602122,
    2642985, 2684221, 2725829, 2767812, 2810169, 2852901, 2896011, 2939498,
    2983363, 3027608, 3072234, 3117241, 3162630, 3208402, 3254559, 3301100,
    3348028, 3395342, 3443044, 3491135, 3539615, 3588486, 3637748, 3687403,
    3737450, 3787892, 3838728, 3889960, 3941589, 3993616, 4046041, 4098865,
    4152089, 4205714, 4259741, 4314171, 4369004, 4424242, 4479885, 4535934,
    4592390, 4649253, 4706526, 4764208, 4822300, 4880803, 4939718, 4999046,
    5058788, 5118944, 5179515, 5240502, 5301906, 5363728, 5425968, 5488627,
    5551707, 5615207, 5679129, 5743474, 5808242, 5873434, 5939050, 6005093,
    6071562, 6138458, 6205782, 6273534, 6341717, 6410329, 6479373, 6548849,
    6618757, 6689099, 6759874, 6831085, 6902731, 6974814, 7047334, 7120292,
    7193689, 7267525, 7341801, 7416518, 7491677, 7567279, 7643323, 7719812,
    7796745, 7874123, 7951948, 8030220, 8108939, 8188106, 8267722, 8347789,
    8428305, 8509273, 8590693, 8672565, 8754891, 8837671, 8920906, 9004596,
    9088743, 9173346, 9258407, 9343926, 9429904, 9516342, 9603241, 9690600,
    9778422, 9866706, 9955453
  >>

linearToSRGB8(c) ==
  Cardinality({v \in DOMAIN ThresholdTable : ThresholdTable[v] <= c})

rgbToXY(r, g, b) ==
  LET rLin == srgbToLinear(r)
      gLin == srgbToLinear(g)
      bLin == srgbToLinear(b)
      X == MulDiv(rLin, 664511, 1000000) + MulDiv(gLin, 154324, 1000000)
             + MulDiv(bLin, 162028, 1000000)
      Y == MulDiv(rLin, 283881, 1000000) + MulDiv(gLin, 668433, 1000000)
             + MulDiv(bLin, 47685, 1000000)
      Z == MulDiv(rLin, 88, 1000000) + MulDiv(gLin, 72310, 1000000)
             + MulDiv(bLin, 986039, 1000000)
      sum == X + Y + Z
  IN IF sum = 0 THEN <<0, 0>>
     ELSE <<MulDiv(X, Scale, sum), MulDiv(Y, Scale, sum)>>

\* round(full * bri / 255)
ScaleByBri(full, bri) == (2 * full * bri + 255) \div 510

xyBriToRGB(xy, bri) ==
  IF Len(xy) < 2 THEN <<0, 0, 0>>
  ELSE IF xy[2] = 0 THEN <<0, 0, 0>>
  ELSE
    LET x == xy[1]
        y == xy[2]
        X == MulDiv(x, Scale, y)
        Z == MulDiv(Scale - x - y, Scale, y)
        r0 == Max2(0, MulDiv(X, 1656492, 1000000)
                        - MulDiv(Scale, 354851, 1000000)
                        - MulDiv(Z, 255038, 1000000))
        g0 == Max2(0, MulDiv(Scale, 1655397, 1000000)
                        - MulDiv(X, 707196, 1000000)
                        + MulDiv(Z, 36152, 1000000))
        b0 == Max2(0, MulDiv(X, 51713, 1000000)
                        - MulDiv(Scale, 121364, 1000000)
                        + MulDiv(Z, 1011530, 1000000))
        scale == Max2(r0, Max2(g0, b0))
        rLin == IF scale > 0 THEN MulDiv(r0, Scale, scale) ELSE r0
        gLin == IF scale > 0 THEN MulDiv(g0, Scale, scale) ELSE g0
        bLin == IF scale > 0 THEN MulDiv(b0, Scale, scale) ELSE b0
    IN <<ScaleByBri(linearToSRGB8(rLin), bri),
         ScaleByBri(linearToSRGB8(gLin), bri),
         ScaleByBri(linearToSRGB8(bLin), bri)>>

maxUint8(a, b, c) ==
  IF a >= b /\ a >= c THEN a ELSE IF b >= c THEN b ELSE c

\* ----------------------------------------------------- the channel switch
\* hueLightColor: one switch per channel of one fixture, no lock, no state
\* of its own; every call reads the fixture from the bridge.
Channels == {"red", "green", "blue"}

ChannelIndex(ch) ==
  CASE ch = "red" -> 1
    [] ch = "green" -> 2
    [] ch = "blue" -> 3

\* LightColorConfig, the part the switches of one fixture share
ColorConfig == [LightID |-> 1]

\* the positions callers pass to SetPosition
ColorPositions == {0, 1, 128, 200, 255, 256, 1000}

\* the fixture when the switches are constructed: white, red, and off with
\* a blue chromaticity
ColorStates ==
  { [on |-> TRUE, bri |-> 254, hue |-> 0, sat |-> 0,
     xy |-> <<3127000, 3290000>>, ct |-> 153, effect |-> "none",
     colormode |-> "xy"],
    [on |-> TRUE, bri |-> 120, hue |-> 0, sat |-> 0,
     xy |-> <<6750000, 3220000>>, ct |-> 153, effect |-> "none",
     colormode |-> "xy"],
    [on |-> FALSE, bri |-> 77, hue |-> 0, sat |-> 0,
     xy |-> <<1670000, 400000>>, ct |-> 153, effect |-> "none",
     colormode |-> "xy"] }

\* the range test letting 256 through
ColorInvalidPositionOffByOne(p) == p > 256

ColorInvalidPosition(p) == p > 255

\* the state SetPosition writes, from the state it read
ColorState(st, ch, p) ==
  LET rgb0 == xyBriToRGB(st.xy, st.bri)
      State(rgb) ==
        LET maxChan == maxUint8(rgb[1], rgb[2], rgb[3])
            bri == IF maxChan > 254 THEN 254 ELSE maxChan
        IN IF maxChan = 0 THEN Partial(FALSE, 0, 0, 0, NoXy, 0, "", 0)
           ELSE Partial(TRUE, bri, 0, 0, rgbToXY(rgb[1], rgb[2], rgb[3]),
                        0, "", 0)
  IN CHOOSE w \in {State(rgb) :
                     rgb \in {[rgb0 EXCEPT ![ChannelIndex(ch)] = p % 256]}} :
       TRUE

\* the value GetPosition returns for the state it read
ChannelValue(st, ch) ==
  IF ~st.on THEN 0 ELSE xyBriToRGB(st.xy, st.bri)[ChannelIndex(ch)]

\* what no call on a channel switch touches
modeVars ==
  <<cfg, position, savedStates, mu, idx, todo, cur, entryPos, entrySaved,
    base, attempts, hist, ext, lastOK, callers, limit, externals, nGroups,
    index, angles, triple, xyBri, back,
    lastBri, briLog>>

InitColor ==
  /\ cfg = ColorConfig
  /\ lights \in { (cfg.LightID :> s) : s \in ColorStates }
  /\ Constructed
  /\ NoAngles
  /\ NoColor
  /\ NoCodec
  /\ NoBrightness
  /\ callers = {1} /\ limit = MaxCalls

\* a round trip of a channel switch failed: the call returns the error
ColorFail(t, op, err) ==
  /\ pc' = Set(pc, t, "done")
  /\ result' = Set(result, t, "err")
  /\ firstErr' = Set(firstErr, t, err)
  /\ ops' = Log(t, op)
  /\ failures' = failures + 1
  /\ UNCHANGED <<lights, light, got>>

\* SetPosition is called on the switch of channel ch
ColorSetPosition(t, ch, p) ==
  /\ Free(t)
  /\ calls < limit
  /\ calls' = calls + 1
  /\ req' = Set(req, t, p)
  /\ channel' = Set(channel, t, ch)
  /\ IF ColorInvalidPosition(p)
     THEN /\ pc' = Set(pc, t, "done")
          /\ result' = Set(result, t, "err")
          /\ firstErr' = Set(firstErr, t, <<"invalid", p>>)
     ELSE /\ pc' = Set(pc, t, "color_get")
          /\ UNCHANGED <<result, firstErr>>
  /\ UNCHANGED <<modeVars, lights, light, zeroed, got, ops, failures>>

\* light, err := s.bridge.GetLight(s.cfg.LightID)
ColorSetRead(t) ==
  /\ pc[t] = "color_get"
  /\ \E ok \in Outcomes :
       IF ok
       THEN /\ light' = Set(light, t, lights[cfg.LightID])
            /\ ops' = Log(t, Read(cfg.LightID, TRUE))
            /\ pc' = Set(pc, t, "color_set")
            /\ UNCHANGED <<lights, result, firstErr, got, failures>>
       ELSE ColorFail(t, Read(cfg.LightID, FALSE), <<"get", cfg.LightID>>)
  /\ UNCHANGED <<modeVars, req, channel, zeroed, calls>>

\* light.SetState: power off for an all-zero triple, else the new colour
ColorSetWrite(t) ==
  /\ pc[t] = "color_set"
  /\ LET id == cfg.LightID IN
     \E w \in {ColorState(light[t], channel[t], req[t])}, ok \in Outcomes :
       IF ok
       THEN /\ lights' = Written(id, w)
            /\ ops' = Log(t, Write(id, TRUE, w))
            /\ zeroed' = IF req[t] = 0 THEN Append(zeroed, channel[t])
                          ELSE <<>>
            /\ pc' = Set(pc, t, "done")
            /\ result' = Set(result, t, "ok")
            /\ UNCHANGED <<light, firstErr, got, failures>>
       ELSE /\ ColorFail(t, Write(id, FALSE, w), <<"set", id>>)
            /\ UNCHANGED zeroed
  /\ UNCHANGED <<modeVars, req, channel, calls>>

\* GetPosition is called on the switch of channel ch
ColorGetPosition(t, ch) ==
  /\ Free(t)
  /\ calls < limit
  /\ calls' = calls + 1
  /\ req' = Set(req, t, -1)
  /\ channel' = Set(channel, t, ch)
  /\ pc' = Set(pc, t, "color_read")
  /\ UNCHANGED <<modeVars, lights, light, zeroed, result, firstErr, got,
                 ops, failures>>

ColorGetRead(t) ==
  /\ pc[t] = "color_read"
  /\ \E ok \in Outcomes :
       IF ok
       THEN /\ got' = Set(got, t, ChannelValue(lights[cfg.LightID],
                                               channel[t]))
            /\ ops' = Log(t, Read(cfg.LightID, TRUE))
            /\ pc' = Set(pc, t, "done")
            /\ result' = Set(result, t, "ok")
            /\ UNCHANGED <<lights, light, firstErr, failures>>
       ELSE ColorFail(t, Read(cfg.LightID, FALSE), <<"get", cfg.LightID>>)
  /\ UNCHANGED <<modeVars, req, channel, zeroed, calls>>

ColorNumberOfPositions(t, ch) ==
  /\ Free(t)
  /\ calls < limit
  /\ calls' = calls + 1
  /\ req' = Set(req, t, -2)
  /\ channel' = Set(channel, t, ch)
  /\ got' = Set(got, t, 256)
  /\ pc' = Set(pc, t, "done")
  /\ result' = Set(result, t, "ok")
  /\ UNCHANGED <<modeVars, lights, light, zeroed, firstErr, ops,
                 failures>>

\* the call returns to its caller
ColorReturn(t) ==
  /\ pc[t] = "done"
  /\ pc' = Set(pc, t, "idle")
  /\ req' = Set(req, t, 0)
  /\ channel' = Set(channel, t, "")
  /\ light' = Set(light, t, NoState)
  /\ result' = Set(result, t, "")
  /\ firstErr' = Set(firstErr, t, NoErr)
  /\ got' = Set(got, t, 0)
  /\ ops' = Set(ops, t, <<>>)
  /\ UNCHANGED <<modeVars, lights, zeroed, calls, failures>>

NextColor ==
  \E t \in Threads :
    \/ \E ch \in Channels, p \in ColorPositions : ColorSetPosition(t, ch, p)
    \/ ColorSetRead(t)
    \/ ColorSetWrite(t)
    \/ \E ch \in Channels : ColorGetPosition(t, ch)
    \/ ColorGetRead(t)
    \/ \E ch \in Channels : ColorNumberOfPositions(t, ch)
    \/ ColorReturn(t)

SpecColor == InitColor /\ [][NextColor]_vars

\* ---------------------------------------------------------------------
\* The channels switched to 0 one after the other, and read
\* ---------------------------------------------------------------------

InitZero ==
  /\ cfg = ColorConfig
  /\ lights \in { (cfg.LightID :> s) : s \in ColorStates }
  /\ Constructed
  /\ NoAngles
  /\ NoColor
  /\ NoCodec
  /\ NoBrightness
  /\ callers = {1} /\ limit = MaxCalls + 2

NextZero ==
  \E t \in Threads :
    \/ \E ch \in Channels : ColorSetPosition(t, ch, 0)
    \/ ColorSetRead(t)
    \/ ColorSetWrite(t)
    \/ \E ch \in Channels : ColorGetPosition(t, ch)
    \/ ColorGetRead(t)
    \/ ColorReturn(t)

SpecZero == InitZero /\ [][NextZero]_vars

\* ---------------------------------------------------------------------
\* Two callers on the channel switches of one fixture: SetPosition takes
\* no lock, so the round trips of the two calls interleave freely
\* ---------------------------------------------------------------------

InitRace ==
  /\ cfg = ColorConfig
  /\ lights \in { (cfg.LightID :> s) : s \in ColorStates }
  /\ Constructed
  /\ NoAngles
  /\ NoColor
  /\ NoCodec
  /\ NoBrightness
  /\ callers = {1, 2} /\ limit = Cardinality(callers)

SpecRace == InitRace /\ [][NextColor]_vars

\* ---------------------------------------------------------------------
\* The codec alone: rgbToXY, then xyBriToRGB with brightness max(r, g, b)
\* ---------------------------------------------------------------------

\* the channel values the triples are drawn from
CodecLevels == {0, 1, 10, 64, 128, 200, 255}

\* what the codec does not touch
codecVars ==
  <<cfg, lights, position, savedStates, mu, pc, req, idx, todo, cur,
    firstErr, result, got, ops, entryPos, entrySaved, base, attempts, hist,
    ext, lastOK, callers, limit, calls, failures, externals, nGroups, index,
    angles, channel, light, zeroed, lastBri, briLog>>

InitCodec ==
  /\ cfg = ColorConfig
  /\ lights \in { (cfg.LightID :> s) : s \in ColorStates }
  /\ Constructed
  /\ NoAngles
  /\ NoColor
  /\ NoBrightness
  /\ callers = {} /\ limit = 0
  /\ triple \in CodecLevels \X CodecLevels \X CodecLevels
  /\ xyBri = <<>>
  /\ back = <<>>

\* x, y := rgbToXY(r, g, b) and Bri = maxUint8(r, g, b)
CodecEncode ==
  /\ xyBri = <<>>
  /\ xyBri' = <<rgbToXY(triple[1], triple[2], triple[3]),
                maxUint8(triple[1], triple[2], triple[3])>>
  /\ UNCHANGED <<triple, back, codecVars>>

\* r, g, b := xyBriToRGB(xy, bri)
CodecDecode ==
  /\ xyBri # <<>>
  /\ back = <<>>
  /\ back' = xyBriToRGB(xyBri[1], xyBri[2])
  /\ UNCHANGED <<triple, xyBri, codecVars>>

NextCodec == CodecEncode \/ CodecDecode

SpecCodec == InitCodec /\ [][NextCodec]_vars

\* ---------------------------------------------------------------------
\* hueLightBrightness: on / off / brightness of one fixture as one switch
\* ---------------------------------------------------------------------

\* LightBrightnessConfig
BrightnessConfig == [LightID |-> 1]

\* the positions callers pass to SetPosition
BrightnessPositions == {0, 1, 2, 51, 100, 101}

\* the fixture when the switch is constructed: on and dimmed, off, and a
\* fixture that reports no brightness
BrightnessStates ==
  { [on |-> TRUE, bri |-> 200, hue |-> 0, sat |-> 0, xy |-> NoXy,
     ct |-> 300, effect |-> "none", colormode |-> "ct"],
    [on |-> FALSE, bri |-> 30, hue |-> 0, sat |-> 0, xy |-> NoXy,
     ct |-> 300, effect |-> "none", colormode |-> "ct"],
    [on |-> TRUE, bri |-> 0, hue |-> 0, sat |-> 0, xy |-> NoXy,
     ct |-> 0, effect |-> "", colormode |-> ""] }

\* s.lastBri = light.State.Bri; if s.lastBri == 0 { s.lastBri = 254 }
ConstructedBri(b) == IF b = 0 THEN 254 ELSE b

\* the position taken as a percentage of 254
BriOfPositionPercent(p) == Max2((p * 254) \div 100, 1)

\* max(uint8(math.Round(float64(position-2)/98.0*253.0)), 1)
BriOfPosition(p) == Max2(((p - 2) * 506 + 98) \div 196, 1)

\* GetPosition's answer for the state it read
PositionOfState(st) ==
  IF ~st.on THEN 0
  ELSE IF st.bri >= 254 THEN 1
  ELSE LET pos == (st.bri * 196 + 253) \div 506 + 2 IN
       IF pos > 100 THEN 100 ELSE pos

\* position 1 as full brightness
BrightnessStateFull(p) ==
  IF p = 0 THEN Partial(FALSE, 0, 0, 0, NoXy, 0, "", 0)
  ELSE IF p = 1 THEN Partial(TRUE, 254, 0, 0, NoXy, 0, "", 0)
  ELSE Partial(TRUE, BriOfPosition(p), 0, 0, NoXy, 0, "", 0)

\* the payload SetPosition(p) writes
BrightnessState(p) ==
  IF p = 0 THEN Partial(FALSE, 0, 0, 0, NoXy, 0, "", 0)
  ELSE IF p = 1 THEN Partial(TRUE, lastBri, 0, 0, NoXy, 0, "", 0)
  ELSE Partial(TRUE, BriOfPosition(p), 0, 0, NoXy, 0, "", 0)

\* what no call on the brightness switch touches
briVars ==
  <<cfg, position, savedStates, mu, idx, todo, cur, entryPos, entrySaved,
    base, attempts, hist, ext, lastOK, callers, limit, externals, nGroups,
    index, angles, channel, light, zeroed, triple, xyBri, back>>

InitBrightness ==
  /\ cfg = BrightnessConfig
  /\ lights \in { (cfg.LightID :> s) : s \in BrightnessStates }
  /\ Constructed
  /\ NoAngles
  /\ NoColor
  /\ NoCodec
  /\ lastBri = ConstructedBri(lights[cfg.LightID].bri)
  /\ briLog = <<[p |-> -1, bri |-> lights[cfg.LightID].bri, ok |-> TRUE]>>
  /\ callers = {1} /\ limit = MaxCalls + 1

\* a round trip of the brightness switch failed: the call returns the error
BriFail(t, op, err) ==
  /\ pc' = Set(pc, t, "done")
  /\ result' = Set(result, t, "err")
  /\ firstErr' = Set(firstErr, t, err)
  /\ ops' = Log(t, op)
  /\ failures' = failures + 1
  /\ UNCHANGED <<lights, got>>

\* SetPosition is called
BriSetPosition(t, p) ==
  /\ Free(t)
  /\ calls < limit
  /\ calls' = calls + 1
  /\ req' = Set(req, t, p)
  /\ IF p > 100
     THEN /\ pc' = Set(pc, t, "done")
          /\ result' = Set(result, t, "err")
          /\ firstErr' = Set(firstErr, t, <<"invalid", p>>)
     ELSE /\ pc' = Set(pc, t, "bri_get")
          /\ UNCHANGED <<result, firstErr>>
  /\ UNCHANGED <<briVars, lights, lastBri, briLog, got, ops, failures>>

\* light, err := s.bridge.GetLight(s.cfg.LightID)
BriSetRead(t) ==
  /\ pc[t] = "bri_get"
  /\ \E ok \in Outcomes :
       IF ok
       THEN /\ ops' = Log(t, Read(cfg.LightID, TRUE))
            /\ pc' = Set(pc, t, "bri_set")
            /\ UNCHANGED <<lights, result, firstErr, got, failures>>
       ELSE BriFail(t, Read(cfg.LightID, FALSE), <<"get", cfg.LightID>>)
  /\ UNCHANGED <<briVars, req, lastBri, briLog, calls>>

\* s.lastBri = bri for 2..100, then light.SetState
BriSetWrite(t) ==
  /\ pc[t] = "bri_set"
  /\ LET id == cfg.LightID
         w == BrightnessState(req[t]) IN
     /\ lastBri' = IF req[t] > 1 THEN w.bri ELSE lastBri
     /\ \E ok \in Outcomes :
          /\ briLog' = Append(briLog,
                              [p |-> req[t], bri |-> w.bri, ok |-> ok])
          /\ IF ok
             THEN /\ lights' = Written(id, w)
                  /\ ops' = Log(t, Write(id, TRUE, w))
                  /\ pc' = Set(pc, t, "done")
                  /\ result' = Set(result, t, "ok")
                  /\ UNCHANGED <<firstErr, got, failures>>
             ELSE BriFail(t, Write(id, FALSE, w), <<"set", id>>)
  /\ UNCHANGED <<briVars, req, calls>>

\* GetPosition is called
BriGetPosition(t) ==
  /\ Free(t)
  /\ calls < limit
  /\ calls' = calls + 1
  /\ req' = Set(req, t, -1)
  /\ pc' = Set(pc, t, "bri_read")
  /\ UNCHANGED <<briVars, lights, lastBri, briLog, result, firstErr, got,
                 ops, failures>>

BriGetRead(t) ==
  /\ pc[t] = "bri_read"
  /\ \E ok \in Outcomes :
       IF ok
       THEN /\ got' = Set(got, t, PositionOfState(lights[cfg.LightID]))
            /\ ops' = Log(t, Read(cfg.LightID, TRUE))
            /\ pc' = Set(pc, t, "done")
            /\ result' = Set(result, t, "ok")
            /\ UNCHANGED <<lights, firstErr, failures>>
       ELSE BriFail(t, Read(cfg.LightID, FALSE), <<"get", cfg.LightID>>)
  /\ UNCHANGED <<briVars, req, lastBri, briLog, calls>>

BriNumberOfPositions(t) ==
  /\ Free(t)
  /\ calls < limit
  /\ calls' = calls + 1
  /\ req' = Set(req, t, -2)
  /\ got' = Set(got, t, 101)
  /\ pc' = Set(pc, t, "done")
  /\ result' = Set(result, t, "ok")
  /\ UNCHANGED <<briVars, lights, lastBri, briLog, firstErr, ops, failures>>

\* the call returns to its caller
BriReturn(t) ==
  /\ pc[t] = "done"
  /\ pc' = Set(pc, t, "idle")
  /\ req' = Set(req, t, 0)
  /\ result' = Set(result, t, "")
  /\ firstErr' = Set(firstErr, t, NoErr)
  /\ got' = Set(got, t, 0)
  /\ ops' = Set(ops, t, <<>>)
  /\ UNCHANGED <<briVars, lights, lastBri, briLog, calls, failures>>

NextBrightness ==
  \/ \E t \in Threads :
       \/ \E p \in BrightnessPositions : BriSetPosition(t, p)
       \/ BriSetRead(t)
       \/ BriSetWrite(t)
       \/ BriGetPosition(t)
       \/ BriGetRead(t)
       \/ BriNumberOfPositions(t)
       \/ BriReturn(t)
  \/ External(cfg.LightID)

SpecBrightness == InitBrightness /\ [][NextBrightness]_vars

\* every position written and then read back, with nothing in between
LevelPositions == 0..101

\* the two calls of a round trip
RoundTrip == <<"SetPosition", "GetPosition">>

InitLevels ==
  /\ cfg = BrightnessConfig
  /\ lights \in { (cfg.LightID :> s) : s \in BrightnessStates }
  /\ Constructed
  /\ NoAngles
  /\ NoColor
  /\ NoCodec
  /\ lastBri = ConstructedBri(lights[cfg.LightID].bri)
  /\ briLog = <<[p |-> -1, bri |-> lights[cfg.LightID].bri, ok |-> TRUE]>>
  /\ callers = {1} /\ limit = Len(RoundTrip)

NextLevels ==
  \E t \in Threads :
    \/ \E p \in LevelPositions : BriSetPosition(t, p)
    \/ BriSetRead(t)
    \/ BriSetWrite(t)
    \/ BriGetPosition(t)
    \/ BriGetRead(t)
    \/ BriReturn(t)

SpecLevels == InitLevels /\ [][NextLevels]_vars

TypeOK ==
  /\ position \in 0..3
  /\ mu \in {0} \cup Threads
  /\ DOMAIN savedStates \subseteq LightIDs

\* ================================================================= claims
AllOk(o) == \A i \in DOMAIN o : o[i].ok
ErrOf(op) == <<op.k, op.id>>

\* caller t has its return value and still holds the lock
Finished(t) == pc[t] = "done" /\ mu = t

\* a SetPosition(0) that returned nil, with no change from outside since
\* the fixtures were first snapshotted
CleanRestore(t) == Finished(t) /\ req[t] = 0 /\ result[t] = "ok" /\ ~ext

\* the fixture shows what it showed then: on/off, brightness and the colour
\* fields of the colour mode it was in, a zero written as MinPositive
RestoredTo(now, was) ==
  /\ now.on = was.on
  /\ now.bri = Bump(was.bri)
  /\ was.colormode = "ct" => now.ct = was.ct
  /\ was.colormode = "xy" => now.xy = was.xy
  /\ was.colormode = "hs" =>
       now.hue = Bump(was.hue) /\ now.sat = Bump(was.sat)

\* the fixtures of the modes in a list of activations
Touched(h) ==
  UNION {Range(lightIDsForPosition(cfg, h[i].p)) : i \in DOMAIN h}

\* C1: CYCLE from NONE, then NONE, every round trip succeeding and nothing
\* changed from outside: every fixture of the cycle groups has the on/off
\* flag, brightness and saved-tag colour fields it had before the CYCLE
\* request, a zero brightness, hue or saturation being 1.
C1_RestoreRoundTrip ==
  \A t \in Threads :
    CleanRestore(t) /\ hist = <<Attempt(1, TRUE)>> =>
      \A id \in Range(flattenDanceGroups(cfg.Dance)) :
        RestoredTo(lights[id], base[id])

C1_Witness ==
  \E t \in Threads :
    /\ CleanRestore(t) /\ hist = <<Attempt(1, TRUE)>>
    /\ \E id \in Range(flattenDanceGroups(cfg.Dance)) :
         /\ base[id].colormode = "hs" /\ base[id].hue = 0 /\ ~base[id].on
         /\ lights[id].hue = MinPositive /\ ~lights[id].on
    /\ \E id \in Range(flattenDanceGroups(cfg.Dance)) :
         base[id].colormode # "hs" /\ lights[id].colormode = base[id].colormode

\* C2: after one or more successful activations starting at NONE, a
\* successful SetPosition(0) leaves every fixture those modes touched in the
\* state it had before the first of them.
C2_RestoresStateBeforeAnyMode ==
  \A t \in Threads :
    CleanRestore(t) /\ hist # <<>> /\ (\A i \in DOMAIN hist : hist[i].ok) =>
      \A id \in Touched(hist) : RestoredTo(lights[id], base[id])

\* C3: when SetPosition(p), p in 1..3, returns nil, the snapshot's keys are
\* exactly the fixtures configured for p, each entry is the state the
\* snapshot read of that fixture returned in this call, and nothing of an
\* earlier snapshot is left.
C3_SnapshotFromScratch ==
  \A t \in Threads :
    Finished(t) /\ req[t] \in 1..3 /\ result[t] = "ok" =>
      LET ids == lightIDsForPosition(cfg, req[t]) IN
      /\ DOMAIN savedStates = Range(ids)
      /\ Len(ops[t]) >= Len(ids)
      /\ \A i \in DOMAIN ids :
           /\ ops[t][i].k = "get" /\ ops[t][i].id = ids[i]
           /\ (\A j \in DOMAIN ids : j > i => ids[j] # ids[i]) =>
                savedStates[ids[i]] = ops[t][i].st

C3_Witness ==
  \E t \in Threads :
    /\ Finished(t) /\ req[t] = 3 /\ result[t] = "ok"
    /\ DOMAIN entrySaved[t] = {1, 2}
    /\ DOMAIN savedStates = {2}
    /\ savedStates[2] # entrySaved[t][2]

\* C4: the position is 0 at construction, always in 0..3, and whenever no
\* call is inside the controller it is the argument of the last returned
\* SetPosition that asked for 0 or asked for 1..3 with every round trip
\* succeeding.
C4_PositionIsLastEffectiveRequest ==
  /\ position \in 0..3
  /\ mu = 0 => position = lastOK

C4_Witness ==
  /\ mu = 0 /\ position = 1 /\ calls = 2
  /\ attempts = <<Attempt(1, TRUE), Attempt(3, FALSE)>>

\* C5 as stated: every mode-switch SetPosition that returns an error leaves
\* the position at its value before the call.
C5_ErrorLeavesPosition ==
  \A t \in Threads :
    pc[t] = "done" /\ req[t] >= 0 /\ result[t] = "err" =>
      position = entryPos[t]

\* C5 amended: a SetPosition(p), p >= 1, that returns an error leaves the
\* position at its value before the call, SetPosition(0) leaves it 0 also
\* when it returns an error, and GetPosition / GetNumberOfPositions never
\* change it.
C5_PositionFrame ==
  \A t \in Threads :
    pc[t] = "done" =>
      /\ req[t] >= 1 /\ result[t] = "err" => position = entryPos[t]
      /\ req[t] = 0 => position = 0
      /\ req[t] < 0 => position = entryPos[t] /\ result[t] = "ok"

C5_Witness ==
  \E t \in Threads :
    /\ pc[t] = "done" /\ req[t] = 2 /\ result[t] = "err"
    /\ entryPos[t] = 1 /\ position = 1
    /\ \E i \in DOMAIN ops[t] : ops[t][i].k = "set" /\ ops[t][i].ok

\* the round trips a fully successful SetPosition(p) makes, in order:
\* what is read or written, on which fixture, with which payload
Want(k, id, w) == [k |-> k, id |-> id, w |-> w]
Shape(op) == Want(op.k, op.id, op.w)

ExpectedSave(ids) == [i \in DOMAIN ids |-> Want("get", ids[i], NoPayload)]

ExpectedDance(steps) ==
  [j \in 1..(3 * Len(steps)) |->
     LET st == steps[((j - 1) \div 3) + 1] IN
     CASE (j - 1) % 3 = 0 -> Want("get", st.id, NoPayload)
       [] (j - 1) % 3 = 1 -> Want("set", st.id, SeedState(st.hue))
       [] OTHER -> Want("set", st.id, LoopState)]

ExpectedPreset(ids, w) ==
  [j \in 1..(2 * Len(ids)) |->
     IF j % 2 = 1 THEN Want("get", ids[(j + 1) \div 2], NoPayload)
     ELSE Want("set", ids[j \div 2], w)]

Expected(c, p) ==
  ExpectedSave(lightIDsForPosition(c, p)) \o
  (CASE p = 1 -> ExpectedDance(DanceSteps(c.Dance))
     [] p = 2 -> ExpectedPreset(c.Daylight, DaylightState)
     [] p = 3 -> ExpectedPreset(c.Warm, WarmState))

\* the last successful write of the call to its fixture is still in effect
StillInEffect(o, i) ==
  (o[i].k = "set" /\ o[i].ok
     /\ \A j \in DOMAIN o : j > i => ~(o[j].k = "set" /\ o[j].id = o[i].id))
  => lights[o[i].id] = ApplyState(lights[o[i].id], o[i].w)

\* C6: when a read or write fails while entering CYCLE, DAYLIGHT or WARM,
\* the call returns that error at once: the failed round trip is its last,
\* everything before it is the successful sequence cut short (no read or
\* write of a later fixture, no write that undoes an earlier one), and the
\* position is what it was before the call.
C6_ActivationFailsFast ==
  \A t \in Threads :
    Finished(t) /\ req[t] \in 1..3 /\ result[t] = "err" =>
      LET o == ops[t]
          e == Expected(cfg, req[t]) IN
      /\ Len(o) \in 1..Len(e)
      /\ \A i \in DOMAIN o : Shape(o[i]) = e[i] /\ (o[i].ok <=> i < Len(o))
      /\ firstErr[t] = ErrOf(o[Len(o)])
      /\ position = entryPos[t]
      /\ ~ext => \A i \in DOMAIN o : StillInEffect(o, i)

C6_Witness ==
  \E t \in Threads :
    /\ Finished(t) /\ req[t] = 1 /\ result[t] = "err"
    /\ Len(ops[t]) = 6 /\ Len(Expected(cfg, 1)) = 8
    /\ ops[t][5].k = "set" /\ ops[t][5].ok
    /\ lights[ops[t][5].id].effect = "colorloop"
    /\ position = 0

\* C7: a SetPosition(p), p in 1..3, that failed part-way, retried with
\* success and followed by a successful SetPosition(0), leaves every fixture
\* of mode p in the state it had before the failed attempt.
C7_RetryKeepsPreModeState ==
  \A t \in Threads :
    (/\ CleanRestore(t)
     /\ Len(hist) = 2
     /\ hist[1].p = hist[2].p /\ ~hist[1].ok /\ hist[2].ok) =>
      \A id \in Touched(hist) : RestoredTo(lights[id], base[id])

\* the round trips of a call on one fixture
OpsOf(o, id) == SelectSeq(o, LAMBDA x : x.id = id)

FirstFailure(o) ==
  IF AllOk(o) THEN NoErr
  ELSE LET i == CHOOSE i \in DOMAIN o :
                  ~o[i].ok /\ \A j \in DOMAIN o : j < i => o[j].ok
       IN ErrOf(o[i])

\* C8: SetPosition(0) visits every fixture of the snapshot whatever fails:
\* one read each; if it succeeds the effect-clearing write; if that succeeds
\* the write of the saved state, and none if it fails.  It returns the first
\* error met, and on return the snapshot is empty and the position 0.
C8_RestoreBestEffort ==
  \A t \in Threads :
    Finished(t) /\ req[t] = 0 =>
      /\ position = 0
      /\ savedStates = EmptyMap
      /\ \A i \in DOMAIN ops[t] : ops[t][i].id \in DOMAIN entrySaved[t]
      /\ \A id \in DOMAIN entrySaved[t] :
           LET q == OpsOf(ops[t], id) IN
           /\ Len(q) \in 1..3
           /\ q[1].k = "get"
           /\ Len(q) = 1 <=> ~q[1].ok
           /\ Len(q) >= 2 =>
                /\ q[2].k = "set" /\ q[2].w = ClearState
                /\ Len(q) = 2 <=> ~q[2].ok
           /\ Len(q) = 3 =>
                /\ q[3].k = "set"
                /\ q[3].w.on = entrySaved[t][id].on
                /\ q[3].w.bri = Bump(entrySaved[t][id].bri)
      /\ firstErr[t] = FirstFailure(ops[t])
      /\ result[t] = IF AllOk(ops[t]) THEN "ok" ELSE "err"

C8_Witness ==
  \E t \in Threads :
    /\ Finished(t) /\ req[t] = 0 /\ result[t] = "err"
    /\ DOMAIN entrySaved[t] = {1, 2}
    /\ Len(ops[t]) = 3
    /\ ~ops[t][1].ok /\ ~ops[t][3].ok
    /\ ops[t][1].id # ops[t][3].id
    /\ firstErr[t] = ErrOf(ops[t][1])
    /\ entryPos[t] # 0 /\ position = 0

\* caller t is between taking the lock and returning
Inside(t) ==
  \/ pc[t] \in {"save", "dance_get", "dance_seed", "dance_loop", "preset_get",
                "preset_set", "restore", "restore_clear", "restore_write",
                "panic"}
  \/ pc[t] = "done" /\ req[t] \in -1..3

\* C9: calls on one controller do not interleave: at most one caller is
\* between its lock and its return, it is the one holding the mutex, every
\* bridge round trip is made by it, and the position GetPosition returns is
\* the one the last finished transition left.
C9_CallsDoNotInterleave ==
  /\ \A t, u \in Threads : Inside(t) /\ Inside(u) => t = u
  /\ \A t \in Threads : Inside(t) => mu = t
  /\ \A t \in Threads : ops[t] # <<>> => Inside(t)
  /\ \A t \in Threads : pc[t] = "done" /\ req[t] = -1 => got[t] = lastOK

C9_Witness ==
  \E t, u \in Threads :
    /\ t # u
    /\ pc[t] = "dance_loop" /\ idx[t] = 1
    /\ pc[u] = "lock" /\ req[u] = 0
    /\ savedStates # EmptyMap

\* C10: SetPosition(p) with p >= 4 returns an error, never takes the lock,
\* makes no bridge round trip and leaves position and snapshot as they were.
C10_InvalidPositionRejected ==
  \A t \in Threads :
    req[t] >= 4 =>
      /\ pc[t] = "done"
      /\ result[t] = "err"
      /\ mu # t
      /\ ops[t] = <<>>
      /\ position = entryPos[t]
      /\ savedStates = entrySaved[t]

C10_Witness ==
  \E t \in Threads :
    /\ pc[t] = "done" /\ req[t] = 4 /\ result[t] = "err"
    /\ position = 1
    /\ DOMAIN savedStates = {1, 2}

\* the writes of a call to one fixture
WritesTo(o, id) == SelectSeq(o, LAMBDA x : x.k = "set" /\ x.id = id)

\* the start hue activateDance computes for the group of fixture id
GroupHue(c, id) ==
  LET steps == DanceSteps(c.Dance)
      j == CHOOSE j \in DOMAIN steps : steps[j].id = id
  IN steps[j].hue

\* C12: entering CYCLE, a fixture is written twice: first power-on, the
\* start hue of its group and saturation 254 without the colorloop effect,
\* then power-on and effect "colorloop" alone.  No write carries both a hue
\* and "colorloop", and the trigger is only sent right after the seed of
\* the same fixture succeeded.
C12_SeedThenTrigger ==
  \A t \in Threads :
    req[t] = 1 =>
      LET o == ops[t] IN
      /\ \A i \in DOMAIN o :
           o[i].k = "set" =>
             /\ ~(o[i].w.hue # 0 /\ o[i].w.effect = "colorloop")
             /\ o[i].w.effect = "colorloop" =>
                  /\ i > 1
                  /\ o[i - 1].k = "set" /\ o[i - 1].id = o[i].id
                  /\ o[i - 1].ok
                  /\ o[i - 1].w.hue # 0
      /\ Finished(t) /\ result[t] = "ok" =>
           \A id \in Range(flattenDanceGroups(cfg.Dance)) :
             LET w == WritesTo(o, id) IN
             /\ Len(w) = 2
             /\ w[1].w.on /\ w[1].w.hue = GroupHue(cfg, id)
             /\ w[1].w.sat = 254 /\ w[1].w.effect # "colorloop"
             /\ w[2].w.on /\ w[2].w.effect = "colorloop"
             /\ w[2].w.hue = 0 /\ w[2].w.sat = 0

C12_Witness ==
  \E t \in Threads :
    /\ Finished(t) /\ req[t] = 1 /\ result[t] = "ok"
    /\ Len(WritesTo(ops[t], 1)) = 2 /\ Len(WritesTo(ops[t], 2)) = 2
    /\ lights[2].effect = "colorloop" /\ lights[2].hue = 1
    /\ lights[1].effect = "colorloop" /\ lights[1].hue = 32767

\* C13: the seed write of a CYCLE activation carries effect "none", so
\* that once it has succeeded no colorloop is running on the fixture when
\* the trigger write is about to be sent.
C13_SeedClearsEffect ==
  \A t \in Threads :
    pc[t] = "dance_loop" =>
      LET seed == ops[t][Len(ops[t])] IN
      /\ seed.k = "set" /\ seed.w.hue # 0
      /\ seed.w.effect = "none"
      /\ lights[seed.id].effect = "none"

\* the number of group names that sort before k
Rank(groups, k) == Cardinality({j \in DOMAIN groups : StrLess(j, k)})

\* floor(i * 65535 / N) for the group k, 1 when that is 0
WantHue(groups, k) ==
  LET h == (Rank(groups, k) * 65535) \div Cardinality(DOMAIN groups)
  IN IF h = 0 THEN 1 ELSE h

\* the hue of the first write of the call to fixture id
SeedOf(o, id) == WritesTo(o, id)[1].w.hue

Increasing(s) == \A j \in DOMAIN s : j > 1 => s[j - 1] < s[j]

CyclicDist(a, b) ==
  LET d == IF a > b THEN a - b ELSE b - a
  IN IF d < 65536 - d THEN d ELSE 65536 - d

MinDist(s) ==
  LET P == {p \in (DOMAIN s) \X (DOMAIN s) : p[1] < p[2]}
      E == {CyclicDist(s[p[1]], s[p[2]]) : p \in P}
  IN CHOOSE d \in E : \A e \in E : d <= e

\* every start hue of the N groups has been computed, or those of the
\* first MaxCount groups
Computed == index >= 2 /\ (index = nGroups \/ index = MaxCount)

\* C16, as stated: for N groups the minimum pairwise cyclic distance among
\* the start hues written (after the bump of 0 to 1) is exactly 65535 / N.
C16_MinDistanceIsWheelOverN ==
  Computed => MinDist(angles) = WheelSize \div nGroups

\* C16, amended: for 2 <= N <= 65535 groups that minimum is
\* floor(65535 / N) - 1: the group of index 0 is written 1, not 0, which
\* brings it one step nearer to the group of index 1.
C16_MinDistanceOneLess ==
  Computed => MinDist(angles) = (WheelSize \div nGroups) - 1

C16_Witness ==
  /\ nGroups = 3 /\ index = 3
  /\ angles = <<1, 21845, 43690>>
  /\ MinDist(angles) = 21844

\* C17: SetPosition(0) writes a fixture of the snapshot at most twice:
\* first power-on with effect "none", also when the saved state is off;
\* then, only if that write succeeded, the write that carries the saved
\* on/off flag.  After a restore whose round trips all succeeded the
\* fixture has the saved on/off flag and no colorloop is running on it.
C17_RestoreWriteOrder ==
  \A t \in Threads :
    req[t] = 0 /\ mu = t =>
      \A id \in DOMAIN entrySaved[t] :
        LET w == WritesTo(ops[t], id)
            saved == entrySaved[t][id] IN
        /\ Len(w) <= 2
        /\ Len(w) >= 1 => w[1].w.on /\ w[1].w.effect = "none"
        /\ Len(w) = 2 =>
             /\ w[1].ok
             /\ w[2].w.on = saved.on
             /\ w[2].w.effect # "colorloop"
        /\ CleanRestore(t) =>
             /\ Len(w) = 2
             /\ lights[id].on = saved.on
             /\ lights[id].effect = "none"

C17_Witness ==
  \E t \in Threads :
    /\ CleanRestore(t) /\ hist = <<Attempt(1, TRUE)>>
    /\ \E id \in DOMAIN entrySaved[t] :
         /\ ~entrySaved[t][id].on
         /\ WritesTo(ops[t], id)[1].w.on
         /\ ~WritesTo(ops[t], id)[2].w.on
         /\ ~lights[id].on /\ lights[id].effect = "none"

\* the second restore write of caller t, made in this step
SecondWrite(t) == pc[t] = "restore_write" /\ pc'[t] # "restore_write"

\* C18: the second restore write carries, besides on/off and brightness,
\* only the colour fields of the saved colour mode: ct alone for "ct", xy
\* alone for "xy", hue and sat alone for "hs"; the fields of the other
\* modes, the effect and the transition time are not in the payload, and
\* the fixture keeps the values it had for them.
C18_RestoreWritesTagOnly ==
  [][\A t \in Threads :
       SecondWrite(t) =>
         LET op == ops'[t][Len(ops'[t])]
             w == op.w
             saved == savedStates[op.id]
             before == lights[op.id]
             after == lights'[op.id] IN
         /\ op.k = "set" /\ op.id = cur[t]
         /\ w.effect = "" /\ w.transitiontime = 0
         /\ saved.colormode = "ct" =>
              w.ct = saved.ct /\ w.xy = NoXy /\ w.hue = 0 /\ w.sat = 0
         /\ saved.colormode = "xy" =>
              w.xy = saved.xy /\ w.ct = 0 /\ w.hue = 0 /\ w.sat = 0
         /\ saved.colormode = "hs" =>
              w.hue # 0 /\ w.sat # 0 /\ w.ct = 0 /\ w.xy = NoXy
         /\ op.ok =>
              /\ after.effect = before.effect
              /\ saved.colormode # "ct" => after.ct = before.ct
              /\ saved.colormode # "xy" => after.xy = before.xy
              /\ saved.colormode # "hs" =>
                   after.hue = before.hue /\ after.sat = before.sat
              /\ \A other \in DOMAIN lights \ {op.id} :
                   lights'[other] = lights[other]]_vars

C18_Witness ==
  \E t \in Threads :
    /\ CleanRestore(t) /\ hist = <<Attempt(1, TRUE)>>
    /\ \E id \in DOMAIN entrySaved[t] :
         /\ entrySaved[t][id].colormode = "ct"
         /\ lights[id].ct = entrySaved[t][id].ct
         /\ lights[id].hue = GroupHue(cfg, id)
         /\ lights[id].hue # entrySaved[t][id].hue
         /\ lights[id].sat = 254

Writes(o) == SelectSeq(o, LAMBDA x : x.k = "set")

\* C20: entering DAYLIGHT (WARM) writes each fixture of the daylight
\* (warm) list exactly once, in list order, with power-on, brightness 254
\* (200), colour temperature 153 (370), effect "none" and a non-zero
\* transition time, and writes no fixture outside the list.
C20_FixedPresets ==
  \A t \in Threads :
    req[t] \in {2, 3} =>
      LET ids == IF req[t] = 2 THEN cfg.Daylight ELSE cfg.Warm
          w == Writes(ops[t]) IN
      /\ Len(w) <= Len(ids)
      /\ \A i \in DOMAIN w :
           /\ w[i].id = ids[i]
           /\ w[i].w.on
           /\ w[i].w.bri = (IF req[t] = 2 THEN 254 ELSE 200)
           /\ w[i].w.ct = (IF req[t] = 2 THEN 153 ELSE 370)
           /\ w[i].w.effect = "none"
           /\ w[i].w.transitiontime # 0
           /\ w[i].w.hue = 0 /\ w[i].w.sat = 0 /\ w[i].w.xy = NoXy
      /\ Finished(t) /\ result[t] = "ok" => Len(w) = Len(ids)

C20_Witness ==
  \E t \in Threads :
    /\ Finished(t) /\ req[t] = 3 /\ result[t] = "ok"
    /\ cfg.Warm = <<2>>
    /\ Len(Writes(ops[t])) = 1
    /\ lights[2].on /\ lights[2].bri = 200 /\ lights[2].ct = 370
    /\ lights[2].colormode = "ct"
    /\ WritesTo(ops[t], 1) = <<>>
    /\ lights[1].ct # 370

\* C11: SetPosition(p) with p > 255 on a channel switch returns an error
\* and makes no bridge read or write: the step that takes the call ends it,
\* and the fixture is as it was.
C11_ColorPositionRejected ==
  [][\A t \in Threads :
       req'[t] > 255 =>
         /\ pc'[t] = "done"
         /\ result'[t] = "err"
         /\ firstErr'[t] = <<"invalid", req'[t]>>
         /\ ops'[t] = <<>>
         /\ light'[t] = NoState
         /\ lights' = lights]_vars

C11_Witness ==
  \E t \in Threads :
    /\ pc[t] = "done" /\ req[t] = 256 /\ result[t] = "err"
    /\ channel[t] = "green"
    /\ ops[t] = <<>>
    /\ calls = 2
    /\ lights[cfg.LightID] \notin ColorStates

\* C21: GetPosition on the mode switch makes no bridge read or write and
\* changes neither the position, the snapshot nor a fixture; it returns the
\* position the last transition left, whatever was done to the fixtures
\* from outside since.
C21_GetPositionIsPure ==
  [][\A t \in Threads :
       (req[t] = -1 \/ req'[t] = -1) /\ pc'[t] # pc[t] =>
         /\ lights' = lights
         /\ position' = position
         /\ savedStates' = savedStates
         /\ ops'[t] = <<>>
         /\ pc[t] = "getlock" =>
              got'[t] = position /\ got'[t] = lastOK]_vars

C21_Witness ==
  \E t \in Threads :
    /\ pc[t] = "done" /\ req[t] = -1 /\ result[t] = "ok"
    /\ got[t] = 2
    /\ ops[t] = <<>>
    /\ ext /\ lights[1] = OutsideState
    /\ lights[2].ct = 153

\* a SetPosition(v) of a channel switch has returned success to caller t
ColorSetDone(t) ==
  /\ pc[t] = "done" /\ result[t] = "ok"
  /\ req[t] \in 0..255
  /\ channel[t] \in Channels

\* C22: after a successful Set of one channel, a Get of either other
\* channel returns what it returned just before the Set, whether the
\* fixture was on or off.
C22_ChannelIndependence ==
  \A t \in Threads :
    ColorSetDone(t) =>
      \A y \in Channels \ {channel[t]} :
        ChannelValue(lights[cfg.LightID], y) = ChannelValue(light[t], y)

\* C23: after a successful SetPosition(v), GetPosition on the same channel
\* returns v, for every v in 0..255 and also for 255.
C23_SetThenGetLossless ==
  \A t \in Threads :
    ColorSetDone(t) =>
      ChannelValue(lights[cfg.LightID], channel[t]) = req[t]

\* C25: decoding the chromaticity of (r, g, b) at brightness max(r, g, b)
\* gives a triple within 1 of (r, g, b) on every channel, and its largest
\* channel is max(r, g, b) exactly.
C25_CodecRoundTrip ==
  back # <<>> =>
    /\ \A i \in 1..3 : back[i] - triple[i] \in -1..1
    /\ maxUint8(back[1], back[2], back[3])
         = maxUint8(triple[1], triple[2], triple[3])

\* the last three successful SetPosition(0) calls went to the three channels
AllZeroed ==
  /\ Len(zeroed) >= 3
  /\ {zeroed[i] : i \in (Len(zeroed) - 2)..Len(zeroed)} = Channels

\* C24: once the three channels were set to 0 by three SetPosition(0) calls
\* in a row, the last of them wrote power-off and nothing else, the fixture
\* is off, and GetPosition on any channel returns 0.
C24_AllZeroCollapse ==
  \A t \in Threads :
    /\ ColorSetDone(t) /\ req[t] = 0 /\ AllZeroed =>
         /\ ops[t][Len(ops[t])].w = Partial(FALSE, 0, 0, 0, NoXy, 0, "", 0)
         /\ ~lights[cfg.LightID].on
    /\ AllZeroed =>
         \A ch \in Channels : ChannelValue(lights[cfg.LightID], ch) = 0
    /\ pc[t] = "done" /\ req[t] = -1 /\ result[t] = "ok" /\ AllZeroed =>
         got[t] = 0

\* what the fixture is after caller t's write landed on the state it read
AfterWrite(t) ==
  ApplyState(light[t], ColorState(light[t], channel[t], req[t]))

\* t and u each finished a SetPosition, on different channels
TwoSets(t, u) ==
  /\ t # u
  /\ ColorSetDone(t) /\ ColorSetDone(u)
  /\ channel[t] # channel[u]

\* C26: two SetPosition calls on different channels of one fixture are not
\* serialized. When both read before either writes, the fixture ends as one
\* of them alone computed it from the state both read, so the other update
\* is lost; when the second call reads what the first wrote, the fixture is
\* what the second wrote and both channels read back the values set.
C26_LostUpdate ==
  \A t, u \in Threads :
    /\ TwoSets(t, u) /\ light[u] = light[t] =>
         lights[cfg.LightID] \in {AfterWrite(t), AfterWrite(u)}
    /\ TwoSets(t, u) /\ light[u] = AfterWrite(t) =>
         /\ lights[cfg.LightID] = AfterWrite(u)
         /\ ChannelValue(lights[cfg.LightID], channel[t]) = req[t]
         /\ ChannelValue(lights[cfg.LightID], channel[u]) = req[u]

\* the interleaving is taken: both callers read white, red := 0 was written
\* first and green := 200 last, and red reads 244 as before
C26_Lost ==
  \E t, u \in Threads :
    /\ TwoSets(t, u) /\ light[u] = light[t]
    /\ light[t].on /\ light[t].bri = 254
    /\ channel[t] = "red" /\ req[t] = 0
    /\ channel[u] = "green" /\ req[u] = 200
    /\ lights[cfg.LightID] = AfterWrite(u)
    /\ ChannelValue(lights[cfg.LightID], "red") = 244

\* the same two calls one after the other: red reads 0 and green 200
C26_Sequential ==
  \E t, u \in Threads :
    /\ TwoSets(t, u) /\ light[u] = AfterWrite(t)
    /\ light[t].on /\ light[t].bri = 254
    /\ channel[t] = "red" /\ req[t] = 0
    /\ channel[u] = "green" /\ req[u] = 200
    /\ ChannelValue(lights[cfg.LightID], "red") = 0
    /\ ChannelValue(lights[cfg.LightID], "green") = 200

\* both read before either wrote: one update alone survives
C26_RaceLosesOne ==
  \A t, u \in Threads :
    TwoSets(t, u) /\ light[u] = light[t] =>
      lights[cfg.LightID] \in {AfterWrite(t), AfterWrite(u)}
\* the entries of the brightness log that stand for a SetPosition in 2..100
Chosen(log, mustSucceed) ==
  {i \in DOMAIN log : log[i].p \in 2..100 /\ (mustSucceed => log[i].ok)}

Latest(S) == CHOOSE i \in S : \A j \in S : j <= i

\* the brightness written by the most recent SetPosition in 2..100, or the
\* one seen at construction
LastWritten(log) ==
  IF Chosen(log, TRUE) = {} THEN log[1].bri
  ELSE BriOfPosition(log[Latest(Chosen(log, TRUE))].p)

\* the brightness of the most recent SetPosition in 2..100 that got to its
\* write, or the one seen at construction with 254 for none
LastSent(log) ==
  IF Chosen(log, FALSE) = {}
  THEN IF log[1].bri = 0 THEN 254 ELSE log[1].bri
  ELSE BriOfPosition(log[Latest(Chosen(log, FALSE))].p)

\* the write of a brightness-switch SetPosition succeeds in this step
BriWritten(t) == pc[t] = "bri_set" /\ pc'[t] = "done" /\ result'[t] = "ok"

\* what positions 0 and 2..100 leave the fixture as
BriOffAndLevels(t) ==
  /\ req[t] = 0 => ~lights'[cfg.LightID].on
  /\ req[t] \in 2..100 =>
       /\ lights'[cfg.LightID].on
       /\ lights'[cfg.LightID].bri = BriOfPosition(req[t])

C28_SnapshotBeforeActivation ==
  \A t \in Threads :
    req[t] \in 1..3 =>
      LET o == ops[t]
          ids == IDs(t)
          n == Len(ids) IN
      /\ \A k \in DOMAIN o :
           o[k].k = "set" =>
             /\ k > n
             /\ \A i \in 1..n :
                  o[i].k = "get" /\ o[i].id = ids[i] /\ o[i].ok
      /\ \A i \in DOMAIN o :
           i <= n /\ ~o[i].ok =>
             /\ pc[t] = "done" /\ result[t] = "err"
             /\ firstErr[t] = <<"get", o[i].id>>
             /\ Len(o) = i
             /\ \A k \in DOMAIN o : o[k].k = "get"

\* DAYLIGHT on fixtures 1 and 2: two snapshot reads, then the first write
C28_Witness ==
  \E t \in Threads :
    /\ req[t] = 2
    /\ Len(ops[t]) >= 4
    /\ ops[t][1].k = "get" /\ ops[t][2].k = "get"
    /\ ops[t][4].k = "set"

\* C29: a SetPosition(0) leaves the snapshot empty, and a SetPosition(0) that
\* finds it empty makes no bridge round trip, returns nil and leaves position
\* 0; so of two NONE requests in a row the second touches no fixture and
\* undoes nothing that was changed from outside after the first.
C29_SnapshotConsumedByNone ==
  \A t \in Threads :
    /\ Finished(t) /\ req[t] = 0 => savedStates = EmptyMap
    /\ mu = t /\ req[t] = 0 /\ entrySaved[t] = EmptyMap =>
         /\ ops[t] = <<>>
         /\ pc[t] = "done" => result[t] = "ok" /\ position = 0

\* DAYLIGHT, NONE, a change to fixture 1 from outside, NONE again: the
\* change is still there when the second NONE has its return value
C29_Witness ==
  \E t \in Threads :
    /\ Finished(t) /\ req[t] = 0
    /\ calls = 3 /\ failures = 0
    /\ lastOK = 0
    /\ entrySaved[t] = EmptyMap
    /\ ops[t] = <<>>
    /\ result[t] = "ok" /\ position = 0
    /\ lights[1] = OutsideState
    /\ lights[2] \in FixtureStates
    /\ lights[2].ct # DaylightCt

\* C30: a SetPosition call that took the lock has given it back when it has
\* returned, whether it succeeded or failed in the snapshot, the activation
\* or the restore; and, every round trip returning, each SetPosition or
\* GetPosition call that is pending eventually returns.
C30_LockReleasedAndCallsReturn ==
  /\ [](\A t \in Threads : pc[t] = "idle" => mu # t)
  /\ [][\A t \in Threads :
          pc[t] = "done" /\ pc'[t] = "idle" /\ mu = t => mu' = 0]_vars
  /\ \A t \in Threads : (pc[t] # "idle") ~> (pc[t] = "idle")

\* caller 2 waits for the lock that caller 1 holds with an error to return
C30_Witness ==
  /\ pc[1] = "done" /\ mu = 1 /\ result[1] = "err"
  /\ req[1] \in 0..3
  /\ pc[2] \in {"lock", "getlock"}

\* b is (p - 2) * 253 / 98 rounded to the nearest integer, and at least 1
NearestLevel(p, b) ==
  \/ b >= 1 /\ 2 * (98 * b - 253 * (p - 2)) \in -98..98
  \/ b = 1 /\ 2 * 253 * (p - 2) < 98

====
